---- MODULE Spec2Model ----
(***************************************************************************)
(* A model of the Scrabble core of "L5 - Games as Adversarial Search":     *)
(* the board and tile model, the move generator, the scoring engine and    *)
(* the state transition (ScrabbleState), as a state machine whose steps    *)
(* are calls of apply_move on moves taken from get_legal_moves; of its two  *)
(* agents, AlphaBetaMinimax and MonteCarlo; and of generalized_search over  *)
(* SpellingBeeProblem of "L3 - Agentic Search".                            *)
(*                                                                         *)
(* Rows and columns are numbered 0..14 as in the source.  A word is a      *)
(* sequence of one-letter strings; an empty cell is the empty string.      *)
(***************************************************************************)
EXTENDS Integers, Sequences, FiniteSets, TLC

(***************************************************************************)
(* Program constants                                                       *)
(***************************************************************************)
BOARD_SIZE == 15

RACK_SIZE == 7

CENTER == 7

BINGO_TILES == 7

BINGO_BONUS == 50

LETTER_VALUES ==
    [A |-> 1, B |-> 3, C |-> 3, D |-> 2, E |-> 1, F |-> 4, G |-> 2, H |-> 4,
     I |-> 1, J |-> 8, K |-> 5, L |-> 1, M |-> 3, N |-> 1, O |-> 1, P |-> 3,
     Q |-> 10, R |-> 1, S |-> 1, T |-> 1, U |-> 1, V |-> 4, W |-> 4, X |-> 8,
     Y |-> 4, Z |-> 10] @@ ("_" :> 0)

\* LETTER_VALUES.get(letter, 0)
LetterValue(letter) ==
    IF letter \in DOMAIN LETTER_VALUES THEN LETTER_VALUES[letter] ELSE 0

\* 0=empty, 2=Double Letter, 3=Triple Letter, 4=Double Word, 5=Triple Word
PREMIUM_BOARD ==
    << <<0, 2, 0, 0, 0, 0, 0, 0, 0, 0, 0, 0, 0, 2, 0>>,
       <<2, 0, 0, 0, 0, 3, 0, 0, 0, 3, 0, 0, 0, 0, 2>>,
       <<0, 0, 4, 0, 0, 0, 2, 0, 2, 0, 0, 0, 4, 0, 0>>,
       <<0, 0, 0, 5, 0, 0, 0, 2, 0, 0, 0, 5, 0, 0, 0>>,
       <<0, 0, 0, 0, 4, 0, 0, 0, 0, 0, 4, 0, 0, 0, 0>>,
       <<0, 3, 0, 0, 0, 3, 0, 0, 0, 3, 0, 0, 0, 3, 0>>,
       <<0, 0, 2, 0, 0, 0, 2, 0, 2, 0, 0, 0, 2, 0, 0>>,
       <<0, 0, 0, 2, 0, 0, 0, 4, 0, 0, 0, 2, 0, 0, 0>>,
       <<0, 0, 2, 0, 0, 0, 2, 0, 2, 0, 0, 0, 2, 0, 0>>,
       <<0, 3, 0, 0, 0, 3, 0, 0, 0, 3, 0, 0, 0, 3, 0>>,
       <<0, 0, 0, 0, 4, 0, 0, 0, 0, 0, 4, 0, 0, 0, 0>>,
       <<0, 0, 0, 5, 0, 0, 0, 2, 0, 0, 0, 5, 0, 0, 0>>,
       <<0, 0, 4, 0, 0, 0, 2, 0, 2, 0, 0, 0, 4, 0, 0>>,
       <<2, 0, 0, 0, 0, 3, 0, 0, 0, 3, 0, 0, 0, 0, 2>>,
       <<0, 2, 0, 0, 0, 0, 0, 0, 0, 0, 0, 0, 0, 2, 0>> >>

\* PREMIUM_BOARD[row][col] with the source's 0-based indices
Premium(row, col) == PREMIUM_BOARD[row + 1][col + 1]

Idx == 0 .. (BOARD_SIZE - 1)

(***************************************************************************)
(* Generic list helpers (Python list semantics)                            *)
(***************************************************************************)
\* range(lo, hi)
Range(lo, hi) == IF hi > lo THEN [i \in 1 .. (hi - lo) |-> lo + i - 1] ELSE <<>>

RECURSIVE Flatten(_)
Flatten(ss) == IF ss = <<>> THEN <<>> ELSE Head(ss) \o Flatten(Tail(ss))

\* the concatenation of Op(x) for x in s, in order: a for loop that extends a list
FlatMap(Op(_), s) == Flatten([i \in 1 .. Len(s) |-> Op(s[i])])

\* x in s
In(x, s) == \E i \in 1 .. Len(s) : s[i] = x

\* s.remove(x): drops the first occurrence of x (x must occur)
RemoveFirst(s, x) ==
    LET i == CHOOSE k \in 1 .. Len(s) : s[k] = x /\ \A j \in 1 .. (k - 1) : s[j] # x
    IN  SubSeq(s, 1, i - 1) \o SubSeq(s, i + 1, Len(s))

\* number of occurrences of x in s
Count(s, x) == Cardinality({i \in 1 .. Len(s) : s[i] = x})

Min(a, b) == IF a < b THEN a ELSE b

Max(a, b) == IF a > b THEN a ELSE b

(***************************************************************************)
(* The lexicon: words.txt is an input of the program; the model reads a    *)
(* small word list.  Entries shorter than two letters are dropped on load. *)
(***************************************************************************)
WORDS_TXT ==
    { <<"A">>,
      <<"A", "T">>,
      <<"A", "S">>,
      <<"C", "A", "T">>,
      <<"C", "A", "T", "S">> }

DICTIONARY == {word \in WORDS_TXT : Len(word) >= 2}

\* str.upper() on one letter: the tiles are upper case already, only these
\* lower-case letters can reach the lexicon (through a move built by hand)
UpperLetter(l) ==
    CASE l = "a" -> "A"
      [] l = "c" -> "C"
      [] l = "s" -> "S"
      [] l = "t" -> "T"
      [] OTHER   -> l

Upper(word) == [i \in 1 .. Len(word) |-> UpperLetter(word[i])]

is_valid_word(word) == Upper(word) \in DICTIONARY

(***************************************************************************)
(* Move                                                                    *)
(***************************************************************************)
\* Move(tiles_placed, score, is_pass=False); a tile is <<row, col, letter>>
Move(tiles_placed, score, is_pass) ==
    [tiles_placed |-> tiles_placed, score |-> score, is_pass |-> is_pass]

PassMove == Move(<<>>, 0, TRUE)

(***************************************************************************)
(* Board                                                                   *)
(***************************************************************************)
EmptyBoard == [r \in Idx |-> [c \in Idx |-> ""]]

\* for row, col, letter in tiles: board[row][col] = letter   (later writes win)
RECURSIVE PlaceTiles(_, _)
PlaceTiles(board, tiles) ==
    IF tiles = <<>> THEN board
    ELSE PlaceTiles([board EXCEPT ![Head(tiles)[1]][Head(tiles)[2]] = Head(tiles)[3]],
                    Tail(tiles))

\* the cells of row `row` (horizontal) or of column `col` (vertical), by index
Line(board, row, col, horizontal) ==
    IF horizontal THEN board[row] ELSE [r \in Idx |-> board[r][col]]

\* while start > 0 and line[start - 1] != "": start -= 1
RECURSIVE RunStart(_, _)
RunStart(line, i) == IF i > 0 /\ line[i - 1] # "" THEN RunStart(line, i - 1) ELSE i

\* while end < BOARD_SIZE - 1 and line[end + 1] != "": end += 1
RECURSIVE RunEnd(_, _)
RunEnd(line, i) ==
    IF i < BOARD_SIZE - 1 /\ line[i + 1] # "" THEN RunEnd(line, i + 1) ELSE i

\* _get_word_at: the letters from the run's start to its end through (row, col)
get_word_at(board, row, col, horizontal) ==
    LET line == Line(board, row, col, horizontal)
        at   == IF horizontal THEN col ELSE row
        lo   == RunStart(line, at)
        hi   == RunEnd(line, at)
    IN  [i \in 1 .. (hi - lo + 1) |-> line[lo + i - 1]]

(***************************************************************************)
(* Scoring engine                                                          *)
(***************************************************************************)
RECURSIVE SumSeq(_)
SumSeq(s) == IF s = <<>> THEN 0 ELSE Head(s) + SumSeq(Tail(s))

RECURSIVE ProdSeq(_)
ProdSeq(s) == IF s = <<>> THEN 1 ELSE Head(s) * ProdSeq(Tail(s))

\* LetterScore that applies the letter premium of every cell of the run
LetterScoreOnEveryTile(letter, premium, just_placed) ==
    IF premium = 2 THEN LetterValue(letter) * 2
    ELSE IF premium = 3 THEN LetterValue(letter) * 3
    ELSE LetterValue(letter)

\* the letter value of a cell, doubled or tripled on a letter premium when the
\* cell's tile was just placed
LetterScore(letter, premium, just_placed) ==
    IF just_placed /\ premium = 2 THEN LetterValue(letter) * 2
    ELSE IF just_placed /\ premium = 3 THEN LetterValue(letter) * 3
    ELSE LetterValue(letter)

\* WordFactor without the word premiums
WordFactorWithoutPremium(premium, just_placed) == 1

\* the factor a cell gives the word multiplier
WordFactor(premium, just_placed) ==
    IF just_placed /\ premium = 4 THEN 2
    ELSE IF just_placed /\ premium = 5 THEN 3
    ELSE 1

\* One run of cells lo..hi along a row (horizontal, row = fixed) or a column
\* (col = fixed): its letter sum times its word multiplier.  `new` holds the
\* indices along the run whose premium applies.
RunScore(temp_board, fixed, horizontal, lo, hi, new) ==
    LET Letter(i) == IF horizontal THEN temp_board[fixed][i] ELSE temp_board[i][fixed]
        Prem(i)   == IF horizontal THEN Premium(fixed, i) ELSE Premium(i, fixed)
        cells     == Range(lo, hi + 1)
        letter_scores == [k \in 1 .. Len(cells) |->
                            LetterScore(Letter(cells[k]), Prem(cells[k]), cells[k] \in new)]
        factors   == [k \in 1 .. Len(cells) |-> WordFactor(Prem(cells[k]), cells[k] \in new)]
    IN  SumSeq(letter_scores) * ProdSeq(factors)

\* horizontal = len(set(rows)) == 1
IsHorizontal(tiles_placed) ==
    Cardinality({tiles_placed[i][1] : i \in 1 .. Len(tiles_placed)}) = 1

SetMin(S) == CHOOSE x \in S : \A y \in S : x <= y

SetMax(S) == CHOOSE x \in S : \A y \in S : x >= y

\* "Score main word": the run from min to max of the placed tiles, extended over
\* the tiles already there, on the row of the first tile (horizontal) or the
\* column of the first tile (vertical)
MainWordScore(board, tiles_placed) ==
    LET horizontal == IsHorizontal(tiles_placed)
        temp_board == PlaceTiles(board, tiles_placed)
        rows  == {tiles_placed[i][1] : i \in 1 .. Len(tiles_placed)}
        cols  == {tiles_placed[i][2] : i \in 1 .. Len(tiles_placed)}
        fixed == IF horizontal THEN tiles_placed[1][1] ELSE tiles_placed[1][2]
        line  == Line(temp_board, fixed, fixed, horizontal)
        along == IF horizontal THEN cols ELSE rows
        lo    == RunStart(line, SetMin(along))
        hi    == RunEnd(line, SetMax(along))
        new   == {i \in lo .. hi :
                    \E k \in 1 .. Len(tiles_placed) :
                        IF horizontal
                        THEN tiles_placed[k][1] = fixed /\ tiles_placed[k][2] = i
                        ELSE tiles_placed[k][1] = i /\ tiles_placed[k][2] = fixed}
    IN  RunScore(temp_board, fixed, horizontal, lo, hi, new)

\* CrossWordScore that scores no cross-word
CrossWordScoreOmitted(board, tiles_placed, tile) == 0

\* "Score cross-words": the run through one placed tile, across the main
\* direction, when longer than one letter; only that tile's premium applies
CrossWordScore(board, tiles_placed, tile) ==
    LET horizontal == IsHorizontal(tiles_placed)
        temp_board == PlaceTiles(board, tiles_placed)
        cross_word == get_word_at(temp_board, tile[1], tile[2], ~horizontal)
        line  == Line(temp_board, tile[1], tile[2], ~horizontal)
        at    == IF horizontal THEN tile[1] ELSE tile[2]
        fixed == IF horizontal THEN tile[2] ELSE tile[1]
        lo    == RunStart(line, at)
    IN  IF Len(cross_word) > 1
        THEN RunScore(temp_board, fixed, ~horizontal, lo, lo + Len(cross_word) - 1, {at})
        ELSE 0

\* _calculate_score
calculate_score(board, tiles_placed) ==
    IF tiles_placed = <<>> THEN 0
    ELSE MainWordScore(board, tiles_placed)
         + SumSeq([k \in 1 .. Len(tiles_placed) |->
                      CrossWordScore(board, tiles_placed, tiles_placed[k])])
         + (IF Len(tiles_placed) = BINGO_TILES THEN BINGO_BONUS ELSE 0)

(***************************************************************************)
(* Move generator                                                          *)
(***************************************************************************)
\* some lexicon word of `length` letters starts with `prefix`
IsWordPrefix(prefix, length) ==
    \E word \in DICTIONARY :
        Len(word) = length /\ SubSeq(word, 1, Len(prefix)) = Upper(prefix)

\* The tuples of itertools.permutations(rack, length) that pass is_valid_word, in
\* the order permutations yields them (by rack position, so a repeated letter gives
\* the same word more than once).  A tuple is built position by position and is
\* dropped as soon as no word of that length starts with it, which removes only
\* tuples that cannot pass is_valid_word.
RECURSIVE PermsFrom(_, _, _, _)
PermsFrom(rack, used, prefix, length) ==
    FlatMap(LAMBDA i :
                IF i \in used \/ ~IsWordPrefix(Append(prefix, rack[i]), length)
                THEN <<>>
                ELSE IF Len(prefix) + 1 = length
                     THEN (IF is_valid_word(Append(prefix, rack[i]))
                           THEN <<Append(prefix, rack[i])>> ELSE <<>>)
                     ELSE PermsFrom(rack, used \cup {i}, Append(prefix, rack[i]), length),
            Range(1, Len(rack) + 1))

ValidPerms(rack, length) == PermsFrom(rack, {}, <<>>, length)

\* _generate_first_move
generate_first_move(board, rack) ==
    FlatMap(LAMBDA length :
      FlatMap(LAMBDA perm :
        FlatMap(LAMBDA start_col :
                  IF start_col <= CENTER /\ CENTER < start_col + length
                  THEN LET tiles_placed ==
                               [i \in 1 .. length |-> <<CENTER, start_col + i - 1, perm[i]>>]
                       IN  <<Move(tiles_placed, calculate_score(board, tiles_placed), FALSE)>>
                  ELSE <<>>,
                Range(Max(0, CENTER - length + 1),
                      Min(CENTER + 1, BOARD_SIZE - length + 1)))
        \o
        FlatMap(LAMBDA start_row :
                  IF start_row <= CENTER /\ CENTER < start_row + length
                  THEN LET tiles_placed ==
                               [i \in 1 .. length |-> <<start_row + i - 1, CENTER, perm[i]>>]
                       IN  <<Move(tiles_placed, calculate_score(board, tiles_placed), FALSE)>>
                  ELSE <<>>,
                Range(Max(0, CENTER - length + 1),
                      Min(CENTER + 1, BOARD_SIZE - length + 1))),
        ValidPerms(rack, length)),
      Range(2, Len(rack) + 1))

\* _find_anchors: the empty cells with a filled neighbour, row by row
IsAnchor(board, r, c) ==
    /\ board[r][c] = ""
    /\ \E d \in {<<-1, 0>>, <<1, 0>>, <<0, -1>>, <<0, 1>>} :
          /\ 0 <= r + d[1] /\ r + d[1] < BOARD_SIZE
          /\ 0 <= c + d[2] /\ c + d[2] < BOARD_SIZE
          /\ board[r + d[1]][c + d[2]] # ""

find_anchors(board) ==
    SelectSeq([i \in 1 .. (BOARD_SIZE * BOARD_SIZE) |->
                  <<(i - 1) \div BOARD_SIZE, (i - 1) % BOARD_SIZE>>],
              LAMBDA rc : IsAnchor(board, rc[1], rc[2]))

\* "Check if we have the tiles in our rack": one rack tile per letter used
RECURSIVE CanPlace(_, _)
CanPlace(rack_copy, tiles_used_from_rack) ==
    IF tiles_used_from_rack = <<>> THEN TRUE
    ELSE IF In(Head(tiles_used_from_rack), rack_copy)
         THEN CanPlace(RemoveFirst(rack_copy, Head(tiles_used_from_rack)),
                       Tail(tiles_used_from_rack))
         ELSE FALSE

\* validate_placement that checks no cross-word
validate_placement_unchecked(board, tiles_placed, horizontal) == TRUE

\* _validate_placement: every cross-word through a placed tile longer than one
\* letter is a word
validate_placement(board, tiles_placed, horizontal) ==
    LET temp_board == PlaceTiles(board, tiles_placed)
    IN  \A k \in 1 .. Len(tiles_placed) :
          LET cross_word == get_word_at(temp_board, tiles_placed[k][1],
                                        tiles_placed[k][2], ~horizontal)
          IN  ~(Len(cross_word) > 1 /\ ~is_valid_word(cross_word))

\* PlacementCell without the loop index: every letter goes to the first cell
PlacementCellWithoutIndex(anchor_row, anchor_col, horizontal, start, i) ==
    IF horizontal THEN <<anchor_row, start>> ELSE <<start, anchor_col>>

\* row, col = anchor_row, start_col + i   /   row, col = start_row + i, anchor_col
\* (i counts from 1 here)
PlacementCell(anchor_row, anchor_col, horizontal, start, i) ==
    IF horizontal THEN <<anchor_row, start + i - 1>> ELSE <<start + i - 1, anchor_col>>

\* NeedsTile that asks for a tile on every cell of the word
NeedsTileAlways(board, row, col) == TRUE

\* if self.board[row][col] == "":  "Need to place a tile here"
NeedsTile(board, row, col) == board[row][col] = ""

\* One candidate of _build_words_at_anchor: `perm` laid along the row or column
\* of the anchor so that the anchor is its letter number anchor_pos_in_word
\* (0-based).  The list holds the move, or nothing when the candidate is dropped.
PlacementAt(board, rack, anchor_row, anchor_col, horizontal, perm, anchor_pos_in_word) ==
    LET word_len == Len(perm)
        start == (IF horizontal THEN anchor_col ELSE anchor_row) - anchor_pos_in_word
        Row(i) == PlacementCell(anchor_row, anchor_col, horizontal, start, i)[1]
        Col(i) == PlacementCell(anchor_row, anchor_col, horizontal, start, i)[2]
        valid == \A i \in 1 .. word_len :
                    board[Row(i)][Col(i)] = "" \/ board[Row(i)][Col(i)] = perm[i]
        tiles_placed ==
            SelectSeq([i \in 1 .. word_len |-> <<Row(i), Col(i), perm[i]>>],
                      LAMBDA t : NeedsTile(board, t[1], t[2]))
        tiles_used_from_rack == [k \in 1 .. Len(tiles_placed) |-> tiles_placed[k][3]]
        temp_board == PlaceTiles(board, tiles_placed)
        main_word == get_word_at(temp_board, anchor_row, anchor_col, horizontal)
    IN  IF start < 0 \/ start + word_len > BOARD_SIZE THEN <<>>
        ELSE IF ~valid \/ Len(tiles_placed) = 0 THEN <<>>
        ELSE IF ~CanPlace(rack, tiles_used_from_rack) THEN <<>>
        ELSE IF ~is_valid_word(main_word) THEN <<>>
        ELSE IF validate_placement(board, tiles_placed, horizontal)
             THEN <<Move(tiles_placed, calculate_score(board, tiles_placed), FALSE)>>
             ELSE <<>>

\* _build_words_at_anchor
build_words_at_anchor(board, rack, anchor_row, anchor_col, horizontal) ==
    FlatMap(LAMBDA word_len :
      FlatMap(LAMBDA perm :
        FlatMap(LAMBDA anchor_pos_in_word :
                  PlacementAt(board, rack, anchor_row, anchor_col, horizontal,
                              perm, anchor_pos_in_word),
                Range(0, word_len)),
        ValidPerms(rack, word_len)),
      Range(2, Len(rack) + 1))

\* _generate_connected_moves
generate_connected_moves(board, rack) ==
    FlatMap(LAMBDA anchor :
              build_words_at_anchor(board, rack, anchor[1], anchor[2], TRUE)
              \o build_words_at_anchor(board, rack, anchor[1], anchor[2], FALSE),
            find_anchors(board))

\* is_terminal
is_terminal(self) == Len(self.tile_pool) = 0 \/ self.passes_in_a_row >= 2

\* the Place moves of get_legal_moves: first moves on an empty board, connected
\* moves otherwise
PlaceMoves(self, player_id) ==
    LET rack == self.racks[player_id]
        board_empty == \A r \in Idx : \A c \in Idx : self.board[r][c] = ""
    IN  IF board_empty
        THEN generate_first_move(self.board, rack)
        ELSE generate_connected_moves(self.board, rack)

\* get_legal_moves without the is_terminal test
get_legal_moves_unguarded(self, player_id) ==
    PlaceMoves(self, player_id) \o <<PassMove>>

\* get_legal_moves
get_legal_moves(self, player_id) ==
    IF is_terminal(self) THEN <<>>
    ELSE PlaceMoves(self, player_id) \o <<PassMove>>

(***************************************************************************)
(* State transition                                                        *)
(***************************************************************************)
\* ScrabbleState(board, tile_pool, racks, current_player, scores): __init__ sets
\* passes_in_a_row to 0
ScrabbleState(board_, tile_pool_, racks_, current_player_, scores_) ==
    [board |-> board_, tile_pool |-> tile_pool_, racks |-> racks_,
     current_player |-> current_player_, scores |-> scores_, passes_in_a_row |-> 0]

\* The outcomes of `count` successive random.choice(tile_pool) calls, each
\* followed by tile_pool.remove(tile): every sequence of tiles that can be drawn
RECURSIVE DrawChoices(_, _)
DrawChoices(tile_pool, count) ==
    IF count = 0 \/ tile_pool = <<>> THEN {<<>>}
    ELSE UNION { { <<tile>> \o rest : rest \in DrawChoices(RemoveFirst(tile_pool, tile), count - 1) }
                 : tile \in {tile_pool[i] : i \in 1 .. Len(tile_pool)} }

RECURSIVE RemoveEach(_, _)
RemoveEach(tile_pool, picks) ==
    IF picks = <<>> THEN tile_pool
    ELSE RemoveEach(RemoveFirst(tile_pool, Head(picks)), Tail(picks))

\* draw_tiles without self.tile_pool.remove(tile): the drawn tiles stay in the pool
draw_tiles_without_remove(tile_pool, count, picks) ==
    [drawn |-> SubSeq(picks, 1, Min(count, Len(tile_pool))), tile_pool |-> tile_pool]

\* _draw_tiles(count) on a pool, `picks` being what random.choice returned: the
\* tiles drawn and the pool they were removed from
draw_tiles(tile_pool, count, picks) ==
    LET actual_draw_count == Min(count, Len(tile_pool))
        drawn == SubSeq(picks, 1, actual_draw_count)
    IN  [drawn |-> drawn, tile_pool |-> RemoveEach(tile_pool, drawn)]

\* RemoveHeld by membership: every copy of a placed letter leaves the rack
RemoveHeldEveryCopy(rack_copy, tiles_to_remove) ==
    SelectSeq(rack_copy, LAMBDA tile : ~In(tile, tiles_to_remove))

\* for tile in tiles_to_remove: if tile in rack_copy: rack_copy.remove(tile)
RECURSIVE RemoveHeld(_, _)
RemoveHeld(rack_copy, tiles_to_remove) ==
    IF tiles_to_remove = <<>> THEN rack_copy
    ELSE RemoveHeld(IF In(Head(tiles_to_remove), rack_copy)
                    THEN RemoveFirst(rack_copy, Head(tiles_to_remove))
                    ELSE rack_copy,
                    Tail(tiles_to_remove))

\* NextPasses without the reset after a Place
NextPassesWithoutReset(self, move) ==
    IF ~move.is_pass THEN self.passes_in_a_row ELSE self.passes_in_a_row + 1

\* NextPasses without the increment after a Pass
NextPassesWithoutIncrement(self, move) ==
    IF ~move.is_pass THEN 0 ELSE self.passes_in_a_row

\* next_state.passes_in_a_row: 0 after a Place (and from __init__), one more
\* than self's after a Pass
NextPasses(self, move) ==
    IF ~move.is_pass THEN 0 ELSE self.passes_in_a_row + 1

\* NextStateRefs with tile_pool=self.tile_pool (no copy): next_state shares the
\* pool list with self
NextStateRefsSharedPool ==
    [board |-> "n_board", tile_pool |-> "s_tile_pool",
     racks |-> "n_racks", scores |-> "n_scores"]

\* Where the fields of next_state live.  apply_move builds next_state from
\* copies ([row[:] for row in self.board], self.tile_pool[:], {p: r[:] ...},
\* self.scores.copy()): each field is an object of its own ("n_..."), not the
\* object the field of self refers to ("s_...").
NextStateRefs ==
    [board |-> "n_board", tile_pool |-> "n_tile_pool",
     racks |-> "n_racks", scores |-> "n_scores"]

\* apply_move(self, move), with `picks` the tiles random.choice returns.  The
\* objects involved are kept in a heap, so that a write through next_state
\* shows in self exactly when both refer to one object.  The result is
\* next_state together with self as it is after the call.
apply_move(self, move, picks) ==
    LET ref == NextStateRefs
        opponent_id == 3 - self.current_player
        player_performing_move == self.current_player
        heap0 == [s_board |-> self.board, s_tile_pool |-> self.tile_pool,
                  s_racks |-> self.racks, s_scores |-> self.scores,
                  n_board |-> self.board, n_tile_pool |-> self.tile_pool,
                  n_racks |-> self.racks, n_scores |-> self.scores]
        heap1 == [heap0 EXCEPT ![ref.board] = PlaceTiles(@, move.tiles_placed)]
        heap2 == [heap1 EXCEPT ![ref.scores] =
                     [@ EXCEPT ![player_performing_move] = @ + move.score]]
        tiles_to_remove == [k \in 1 .. Len(move.tiles_placed) |-> move.tiles_placed[k][3]]
        rack_copy == RemoveHeld(heap2[ref.racks][player_performing_move], tiles_to_remove)
        tiles_used == Len(move.tiles_placed)
        draw  == draw_tiles(heap2[ref.tile_pool], tiles_used, picks)
        heap3 == [heap2 EXCEPT ![ref.tile_pool] = draw.tile_pool]
        heap4 == [heap3 EXCEPT ![ref.racks] =
                     [@ EXCEPT ![player_performing_move] = rack_copy \o draw.drawn]]
        heap  == IF ~move.is_pass THEN heap4 ELSE heap0
    IN  [next_state |->
            [board |-> heap[ref.board], tile_pool |-> heap[ref.tile_pool],
             racks |-> heap[ref.racks], current_player |-> opponent_id,
             scores |-> heap[ref.scores],
             passes_in_a_row |-> NextPasses(self, move)],
         self_after |->
            [board |-> heap.s_board, tile_pool |-> heap.s_tile_pool,
             racks |-> heap.s_racks, current_player |-> self.current_player,
             scores |-> heap.s_scores, passes_in_a_row |-> self.passes_in_a_row]]

\* get_utility
get_utility(self, maximizing_player_id) ==
    self.scores[maximizing_player_id] - self.scores[3 - maximizing_player_id]

(***************************************************************************)
(* random.choice inside a search: the tile a call returns is read off a     *)
(* stream of numbers, so that a search can be replayed with the same draws. *)
(***************************************************************************)
\* the tiles `count` calls of random.choice give when the stream stands at s
RECURSIVE ResolveDraw(_, _, _)
ResolveDraw(tile_pool, count, s) ==
    IF count = 0 \/ tile_pool = <<>> THEN <<>>
    ELSE LET tile == tile_pool[(s % Len(tile_pool)) + 1]
         IN  <<tile>> \o ResolveDraw(RemoveFirst(tile_pool, tile), count - 1, s + 1)

\* state.apply_move(move) with the stream at s
ApplyResolved(state, move, s) ==
    apply_move(state, move,
               ResolveDraw(state.tile_pool, Len(move.tiles_placed), s)).next_state

(***************************************************************************)
(* AlphaBetaMinimax                                                        *)
(***************************************************************************)
\* float("inf"): above every utility
Inf == 2 ^ 30

\* Cutoff that stops every loop after its first move
CutoffAlways(alpha, beta) == TRUE

\* if alpha >= beta: break
Cutoff(alpha, beta) == alpha >= beta

RECURSIVE minimax_value(_, _, _, _, _, _)
RECURSIVE MaxLoop(_, _, _, _, _, _, _, _, _, _)
RECURSIVE MaxMove(_, _, _, _, _, _, _, _, _, _, _)
RECURSIVE MinLoop(_, _, _, _, _, _, _, _, _, _)
RECURSIVE MinMove(_, _, _, _, _, _, _, _, _, _, _)

\* the "for move in moves" loop of a Max node from move number i on; value and
\* alpha are the running values, nodes the calls of _minimax_value so far
MaxLoop(state, moves, i, depth, alpha, beta, maximizing_player_id, s, value, nodes) ==
    IF i > Len(moves) THEN [value |-> value, nodes |-> nodes]
    ELSE MaxMove(state, moves, i, depth, alpha, beta, maximizing_player_id, s, value, nodes,
                 minimax_value(ApplyResolved(state, moves[i], s), depth - 1, alpha, beta,
                               maximizing_player_id, s))

\* one pass of that loop, r being what the recursive call returned
MaxMove(state, moves, i, depth, alpha, beta, maximizing_player_id, s, value, nodes, r) ==
    IF Cutoff(Max(alpha, Max(value, r.value)), beta)
    THEN [value |-> Max(value, r.value), nodes |-> nodes + r.nodes]
    ELSE MaxLoop(state, moves, i + 1, depth, Max(alpha, Max(value, r.value)), beta,
                 maximizing_player_id, s, Max(value, r.value), nodes + r.nodes)

\* the loop of a Min node
MinLoop(state, moves, i, depth, alpha, beta, maximizing_player_id, s, value, nodes) ==
    IF i > Len(moves) THEN [value |-> value, nodes |-> nodes]
    ELSE MinMove(state, moves, i, depth, alpha, beta, maximizing_player_id, s, value, nodes,
                 minimax_value(ApplyResolved(state, moves[i], s), depth - 1, alpha, beta,
                               maximizing_player_id, s))

MinMove(state, moves, i, depth, alpha, beta, maximizing_player_id, s, value, nodes, r) ==
    IF Cutoff(alpha, Min(beta, Min(value, r.value)))
    THEN [value |-> Min(value, r.value), nodes |-> nodes + r.nodes]
    ELSE MinLoop(state, moves, i + 1, depth, alpha, Min(beta, Min(value, r.value)),
                 maximizing_player_id, s, Min(value, r.value), nodes + r.nodes)

\* _minimax_value: the value returned and the number of nodes explored under
\* (and with) this call
minimax_value(state, depth, alpha, beta, maximizing_player_id, s) ==
    IF depth = 0 \/ is_terminal(state)
    THEN [value |-> get_utility(state, maximizing_player_id), nodes |-> 1]
    ELSE IF state.current_player = maximizing_player_id
         THEN MaxLoop(state, get_legal_moves(state, state.current_player), 1, depth,
                      alpha, beta, maximizing_player_id, s, -Inf, 1)
         ELSE MinLoop(state, get_legal_moves(state, state.current_player), 1, depth,
                      alpha, beta, maximizing_player_id, s, Inf, 1)

RECURSIVE RootLoop(_, _, _, _, _, _, _, _, _)

ImprovesOrTies(value, best_value) == value >= best_value

ImprovesNever(value, best_value) == FALSE

\* if value > best_value
Improves(value, best_value) == value > best_value

\* one pass of the root loop: "if value > best_value" keeps the first best move
RootMove(state, moves, i, max_depth, alpha, s, best_value, best_move, nodes, r) ==
    IF Improves(r.value, best_value)
    THEN RootLoop(state, moves, i + 1, max_depth, Max(alpha, r.value), s,
                  r.value, moves[i], nodes + r.nodes)
    ELSE RootLoop(state, moves, i + 1, max_depth, Max(alpha, best_value), s,
                  best_value, best_move, nodes + r.nodes)

\* the "for move in moves" loop of find_best_move (no break at the root)
RootLoop(state, moves, i, max_depth, alpha, s, best_value, best_move, nodes) ==
    IF i > Len(moves)
    THEN [move |-> best_move, best_value |-> best_value, nodes_explored |-> nodes]
    ELSE RootMove(state, moves, i, max_depth, alpha, s, best_value, best_move, nodes,
                  minimax_value(ApplyResolved(state, moves[i], s), max_depth - 1, alpha, Inf,
                                state.current_player, s))

\* "return best_move" when no value exceeded -inf: None
NoMove == Move(<<>>, 0, FALSE)

AlphaBetaFrom(state, moves, max_depth, s) ==
    IF moves = <<>>
    THEN [move |-> PassMove, best_value |-> -Inf, nodes_explored |-> 0]
    ELSE RootLoop(state, moves, 1, max_depth, -Inf, s, -Inf, NoMove, 0)

\* AlphaBetaMinimax(max_depth).find_best_move(state): the move returned, the
\* best_value it printed and self.nodes_explored
AlphaBeta_find_best_move(state, max_depth, s) ==
    AlphaBetaFrom(state, get_legal_moves(state, state.current_player), max_depth, s)

(***************************************************************************)
(* MonteCarlo                                                              *)
(***************************************************************************)
\* await self.heuristic_fn(next_state, state.current_player): the callback is an
\* input of the program.  `h` names what it computes and the number of the call
\* at which it raises (0: never); the result tells whether the call raised.
heuristic_fn(h, next_state, perspective, call) ==
    [raised |-> h.raise_at = call,
     value  |-> IF h.raise_at = call THEN 0
                ELSE IF h.kind = "utility" THEN get_utility(next_state, perspective)
                ELSE Count(next_state.racks[perspective], "A")]

\* Propagates that swallows the failure: the loop goes on with the value 0
PropagatesNever(value) == FALSE

\* no try/except around the await: a raising callback ends find_best_move
Propagates(value) == value.raised

\* next_state = state.apply_move(move) of playout number j of a move whose calls
\* are numbered from first_call: a fresh call, drawing from the stream where it
\* then stands
PlayoutSuccessor(state, move, s, first_call, j) ==
    ApplyResolved(state, move, s + first_call + j - 1)

RECURSIVE PlayoutLoop(_, _, _, _, _, _, _, _)

\* one playout, `value` being what the heuristic call gave
Playout(state, move, j, playouts_per_move, h, s, first_call, total_value, value) ==
    IF Propagates(value)
    THEN [raised |-> TRUE, total_value |-> total_value, calls |-> j]
    ELSE PlayoutLoop(state, move, j + 1, playouts_per_move, h, s, first_call,
                     total_value + value.value)

\* "for _ in range(playouts_per_move)" from playout number j on; the calls of
\* this move are numbered from first_call, and every apply_move draws from the
\* stream where it then stands
PlayoutLoop(state, move, j, playouts_per_move, h, s, first_call, total_value) ==
    IF j > playouts_per_move
    THEN [raised |-> FALSE, total_value |-> total_value, calls |-> j - 1]
    ELSE Playout(state, move, j, playouts_per_move, h, s, first_call, total_value,
                 heuristic_fn(h, PlayoutSuccessor(state, move, s, first_call, j),
                              state.current_player, first_call + j - 1))

\* Move.__hash__
MoveHash(move) == <<move.tiles_placed, move.is_pass>>

\* Move.__eq__: zip stops at the shorter list of tiles
MoveEq(self, value) ==
    /\ \A k \in 1 .. Min(Len(self.tiles_placed), Len(value.tiles_placed)) :
           self.tiles_placed[k] = value.tiles_placed[k]
    /\ self.score = value.score
    /\ self.is_pass = value.is_pass

\* two keys of a dict are one key when their hashes agree and __eq__ holds
SameKey(a, b) == MoveHash(a) = MoveHash(b) /\ MoveEq(a, b)

\* move_values[move] = avg_value on a dict kept as the list of its items in
\* insertion order: a key already there keeps its place and gets the new value
DictSet(d, key, value) ==
    IF \E k \in 1 .. Len(d) : SameKey(d[k].key, key)
    THEN [d EXCEPT ![CHOOSE k \in 1 .. Len(d) : SameKey(d[k].key, key)].value = value]
    ELSE Append(d, [key |-> key, value |-> value])

\* avg_value = total_value / playouts_per_move is kept as the pair
\* <<total_value, playouts_per_move>>; a < b for two of them, playouts_per_move
\* being positive
AvgLess(a, b) == a[1] * b[2] < b[1] * a[2]

RECURSIVE MoveValues(_, _, _, _)
\* the dict after the "for move in moves" loop from move number i on
MoveValues(moves, averages, i, d) ==
    IF i > Len(moves) THEN d
    ELSE MoveValues(moves, averages, i + 1, DictSet(d, moves[i], averages[i]))

\* max(move_values, key=move_values.get): the first key, in the order of the
\* dict, whose value no other value exceeds
MaxKey(d) ==
    d[CHOOSE k \in 1 .. Len(d) :
          /\ \A j \in 1 .. Len(d) : ~AvgLess(d[k].value, d[j].value)
          /\ \A j \in 1 .. (k - 1) : AvgLess(d[j].value, d[k].value)].key

PlayoutsPerMoveFloor(num_playouts, moves) == num_playouts \div Len(moves)

\* int(self.num_playouts // len(moves)) or 1
PlayoutsPerMove(num_playouts, moves) ==
    IF num_playouts \div Len(moves) # 0 THEN num_playouts \div Len(moves) ELSE 1

\* the outcome of find_best_move given the playouts of every move: the first
\* playout that raised ends the call
MonteCarloOutcome(moves, playouts_per_move, runs) ==
    IF \E i \in 1 .. Len(moves) : runs[i].raised
    THEN LET i == CHOOSE k \in 1 .. Len(moves) :
                      runs[k].raised /\ \A j \in 1 .. (k - 1) : ~runs[j].raised
         IN  [outcome |-> "raise", move |-> NoMove,
              heuristic_calls |-> (i - 1) * playouts_per_move + runs[i].calls,
              averages |-> [k \in 1 .. (i - 1) |-> <<runs[k].total_value, playouts_per_move>>],
              playouts |-> [k \in 1 .. i |-> runs[k].calls]]
    ELSE LET averages == [k \in 1 .. Len(moves) |-> <<runs[k].total_value, playouts_per_move>>]
         IN  [outcome |-> "return",
              move |-> MaxKey(MoveValues(moves, averages, 1, <<>>)),
              heuristic_calls |-> Len(moves) * playouts_per_move,
              averages |-> averages,
              playouts |-> [k \in 1 .. Len(moves) |-> runs[k].calls]]

MonteCarloRuns(state, moves, playouts_per_move, h, s) ==
    MonteCarloOutcome(moves, playouts_per_move,
        [i \in 1 .. Len(moves) |->
            PlayoutLoop(state, moves[i], 1, playouts_per_move, h, s,
                        (i - 1) * playouts_per_move + 1, 0)])

MonteCarloFrom(state, moves, num_playouts, h, s) ==
    IF moves = <<>>
    THEN [outcome |-> "return", move |-> PassMove, heuristic_calls |-> 0, averages |-> <<>>,
          playouts |-> <<>>]
    ELSE MonteCarloRuns(state, moves, PlayoutsPerMove(num_playouts, moves), h, s)

\* MonteCarlo(num_playouts, heuristic_fn).find_best_move(state): how the call
\* ended, the move returned, the calls of the heuristic made, the avg_value
\* computed for each move of `moves` in turn and the playouts each move got
MonteCarlo_find_best_move(state, num_playouts, h, s) ==
    MonteCarloFrom(state, get_legal_moves(state, state.current_player), num_playouts, h, s)

(***************************************************************************)
(* create_new_game                                                         *)
(***************************************************************************)
\* the standard distribution, in the order of the dict
tile_distribution ==
    << <<"A", 9>>, <<"B", 2>>, <<"C", 2>>, <<"D", 4>>, <<"E", 12>>, <<"F", 2>>,
       <<"G", 3>>, <<"H", 2>>, <<"I", 9>>, <<"J", 1>>, <<"K", 1>>, <<"L", 4>>,
       <<"M", 2>>, <<"N", 6>>, <<"O", 8>>, <<"P", 2>>, <<"Q", 1>>, <<"R", 6>>,
       <<"S", 4>>, <<"T", 6>>, <<"U", 4>>, <<"V", 2>>, <<"W", 2>>, <<"X", 1>>,
       <<"Y", 2>>, <<"Z", 1>>, <<"_", 2>> >>

\* The model plays with a part of that bag, small enough for every play to be
\* explored: at most this many tiles of a letter, none of the letters left out.
BagCap == [A |-> 5, C |-> 2, S |-> 4, T |-> 5, X |-> 1]

BagCount(entry) ==
    IF entry[1] \in DOMAIN BagCap THEN Min(entry[2], BagCap[entry[1]]) ELSE 0

\* for letter, count in tile_distribution.items(): tile_pool.extend([letter] * count)
UnshuffledPool ==
    FlatMap(LAMBDA entry : [i \in 1 .. BagCount(entry) |-> entry[1]], tile_distribution)

\* the tiles of the full standard distribution
StandardPool ==
    FlatMap(LAMBDA entry : [i \in 1 .. entry[2] |-> entry[1]], tile_distribution)

\* the number of tiles in the game
TotalTiles == Len(UnshuffledPool)

\* Results of random.shuffle(tile_pool) the model starts from.  The racks are
\* popped from the end of the list: rack 1 is the last seven tiles read
\* backwards, rack 2 the seven before them.
Shuffles ==
    << <<"S", "S", "A",
         "C", "A", "T", "T", "A", "S", "X",
         "S", "T", "A", "T", "C", "A", "T">>,
       <<"T", "T", "S",
         "S", "T", "A", "T", "C", "S", "A",
         "A", "X", "A", "S", "T", "A", "C">>,
       <<"A", "A", "A",
         "T", "T", "C", "A", "T", "A", "C",
         "T", "T", "X", "S", "S", "S", "S">> >>

NumShuffles == 2

IsShuffleOf(shuffled, tiles) ==
    /\ Len(shuffled) = Len(tiles)
    /\ \A i \in 1 .. Len(tiles) : Count(shuffled, tiles[i]) = Count(tiles, tiles[i])

\* for _ in range(RACK_SIZE): if tile_pool: rack.append(tile_pool.pop())
PopRack(tile_pool) ==
    [i \in 1 .. Min(RACK_SIZE, Len(tile_pool)) |-> tile_pool[Len(tile_pool) - i + 1]]

\* create_new_game, given the shuffled tile list
create_new_game(shuffled) ==
    LET rack1  == PopRack(shuffled)
        after1 == SubSeq(shuffled, 1, Len(shuffled) - Len(rack1))
        rack2  == PopRack(after1)
        after2 == SubSeq(after1, 1, Len(after1) - Len(rack2))
    IN  ScrabbleState(EmptyBoard, after2, <<rack1, rack2>>, 1, <<0, 0>>)

(***************************************************************************)
(* "L3 - Agentic Search": SpellingBeeProblem and generalized_search.  A     *)
(* search state is the word typed so far, a sequence of letters; an        *)
(* Optional value is a sequence of no element (None) or one.               *)
(***************************************************************************)
None == <<>>

Some(x) == <<x>>

\* _normalize_word: str(word or "").strip().upper()
normalize_word(word) == Upper(word)

\* _is_candidate_word
is_candidate_word(word, letters, required_letter, min_word_length) ==
    /\ Len(normalize_word(word)) >= min_word_length
    /\ \E i \in 1 .. Len(word) : normalize_word(word)[i] = required_letter
    /\ \A i \in 1 .. Len(word) : \E k \in 1 .. Len(letters) : normalize_word(word)[i] = letters[k]

\* _build_prefix_set
build_prefix_set(words) ==
    UNION { { SubSeq(word, 1, end) : end \in 1 .. Len(word) } : word \in words }

\* SpellingBeeProblem(letters, required_letter, dictionary=..., min_word_length=...)
SpellingBeeProblem(letters, required_letter, dictionary, min_word_length) ==
    LET raw_dictionary == { normalize_word(word) : word \in dictionary }
        valid_words == { word \in raw_dictionary :
                           is_candidate_word(word, letters, required_letter, min_word_length) }
    IN  [letters |-> letters,
         required_letter |-> required_letter,
         min_word_length |-> min_word_length,
         valid_words |-> valid_words,
         max_word_length |-> SetMax({ Len(word) : word \in valid_words }),
         prefixes |-> build_prefix_set(valid_words) \cup {<<>>}]

\* problem.initial_state()
initial_state(problem) == <<>>

\* problem.successors(state): (action, next_state) in the order of the letters
successors(problem, state) ==
    IF Len(normalize_word(state)) >= problem.max_word_length
    THEN <<>>
    ELSE LET offered == SelectSeq(problem.letters,
                            LAMBDA letter : Append(normalize_word(state), letter) \in problem.prefixes)
         IN  [i \in 1 .. Len(offered) |->
                 [action |-> offered[i], next_state |-> Append(normalize_word(state), offered[i])]]

\* problem.is_goal(state)
is_goal(problem, state) == normalize_word(state) \in problem.valid_words

\* strategy.lower()
Lower(strategy) ==
    CASE strategy = "A_STAR" -> "a_star"
      [] strategy = "Uniform_Cost" -> "uniform_cost"
      [] strategy = "GREEDY" -> "greedy"
      [] OTHER -> strategy

\* cost_fn(parent_state, action, child_state), one of the callbacks a caller
\* can pass: a constant step, a step priced by the letter typed, a step
\* priced by the length reached, and one that is negative on the letter S
cost_fn(kind, parent_state, action, child_state) ==
    CASE kind = "unit" -> 1
      [] kind = "letter" -> (CASE action = "A" -> 0 [] action = "T" -> 1
                               [] action = "S" -> 4 [] OTHER -> 3)
      [] kind = "length" -> Len(child_state)
      [] kind = "negative_s" -> IF action = "S" THEN 0 - 1 ELSE 1

\* heuristic_fn(state), one of the callbacks a caller can pass: [raised, value].
\* "against_a" estimates high every word that starts with A; "raising" raises
\* once the word is two letters long.
search_heuristic_fn(kind, state) ==
    CASE kind = "zero" -> [raised |-> FALSE, value |-> 0]
      [] kind = "against_a" ->
            [raised |-> FALSE, value |-> IF state # <<>> /\ state[1] = "A" THEN 9 ELSE 0]
      [] kind = "raising" -> [raised |-> Len(state) >= 2, value |-> 0]

\* SearchNode(state, parent, action, path_cost, heuristic)
SearchNode(state, parent, action, path_cost, heuristic) ==
    [state |-> state, parent |-> parent, action |-> action, path_cost |-> path_cost,
     heuristic |-> heuristic]

\* SearchNode.total_cost
total_cost(node) == node.path_cost + node.heuristic

\* heapq.heappush(frontier, (total_cost, next(counter), node))
heappush(frontier, node, counter) ==
    frontier \cup {[priority |-> total_cost(node), count |-> counter, node |-> node]}

\* the entry heapq.heappop returns: the least (total_cost, count) pair
heap_top(frontier) ==
    CHOOSE e \in frontier :
        \A o \in frontier :
            \/ e.priority < o.priority
            \/ e.priority = o.priority /\ e.count <= o.count

RECURSIVE reconstruct_actions(_)

\* _reconstruct_actions: the actions from the root down to node
reconstruct_actions(node) ==
    IF node.action = None THEN <<>>
    ELSE Append(reconstruct_actions(node.parent[1]), node.action[1])

\* _build_search_result
build_search_result(node, success, expansions, explored, frontier_size) ==
    IF success /\ node = None
    THEN [kind |-> "raise", error |-> "ValueError"]
    ELSE [kind |-> "return",
          success |-> success,
          goal_state |-> IF node # None THEN Some(node[1].state) ELSE None,
          actions |-> IF node # None THEN reconstruct_actions(node[1]) ELSE <<>>,
          cost |-> IF success THEN node[1].path_cost ELSE Inf,
          expansions |-> expansions,
          explored |-> explored,
          frontier_size |-> frontier_size]

LimitReachedLate(max_expansions, expansions) ==
    max_expansions # None /\ expansions > max_expansions[1]

\* if max_expansions is not None and expansions >= max_expansions: break
LimitReached(max_expansions, expansions) ==
    max_expansions # None /\ expansions >= max_expansions[1]

UsesHeuristicAlways(strategy) == TRUE

\* if strategy == "a_star": the heuristic is called, else the value is 0.0
UsesHeuristic(strategy) == strategy = "a_star"

(***************************************************************************)
(* The state machine                                                       *)
(***************************************************************************)
VARIABLES
    board,            \* state.board
    tile_pool,        \* state.tile_pool
    racks,            \* state.racks
    current_player,   \* state.current_player
    scores,           \* state.scores
    passes_in_a_row,  \* state.passes_in_a_row
    applied,          \* the moves applied so far, oldest first
    caller,           \* the state apply_move was last called on: before and after the call
    found,            \* the last find_best_move call on the current state and its result
    request,          \* the arguments of the generalized_search call, strategy lowered
    frontier,         \* generalized_search: the heap of (total_cost, count, node)
    counter,          \* generalized_search: the next value of count()
    best_costs,       \* generalized_search: best_costs
    explored,         \* generalized_search: explored
    expansions,       \* generalized_search: expansions
    heuristic_calls,  \* the number of calls of heuristic_fn made by the search
    search_result     \* what generalized_search returned or raised

vars == <<board, tile_pool, racks, current_player, scores, passes_in_a_row, applied, caller,
          found, request, frontier, counter, best_costs, explored, expansions,
          heuristic_calls, search_result>>

gameVars == <<board, tile_pool, racks, current_player, scores, passes_in_a_row, applied, caller>>

searchVars ==
    <<request, frontier, counter, best_costs, explored, expansions, heuristic_calls,
      search_result>>

\* generalized_search was not called
NoRequest == [strategy |-> "none"]

\* generalized_search has neither returned nor raised
NoResult == [kind |-> "none"]

SearchIdle ==
    /\ request = NoRequest
    /\ frontier = {}
    /\ counter = 0
    /\ best_costs = <<>>
    /\ explored = {}
    /\ expansions = 0
    /\ heuristic_calls = 0
    /\ search_result = NoResult

\* no find_best_move call was made on the current state
NoCall == [agent |-> "none"]

\* the current ScrabbleState object
State ==
    [board |-> board, tile_pool |-> tile_pool, racks |-> racks,
     current_player |-> current_player, scores |-> scores,
     passes_in_a_row |-> passes_in_a_row]

Start(s) ==
    /\ board = s.board
    /\ tile_pool = s.tile_pool
    /\ racks = s.racks
    /\ current_player = s.current_player
    /\ scores = s.scores
    /\ passes_in_a_row = s.passes_in_a_row
    /\ applied = <<>>
    /\ caller = [before |-> s, after |-> s]
    /\ found = NoCall
    /\ SearchIdle

Init ==
    \E k \in 1 .. NumShuffles :
        /\ IsShuffleOf(Shuffles[k], UnshuffledPool)
        /\ Start(create_new_game(Shuffles[k]))

\* state = state.apply_move(move)
Step(move, picks) ==
    LET r == apply_move(State, move, picks)
    IN  /\ board' = r.next_state.board
        /\ tile_pool' = r.next_state.tile_pool
        /\ racks' = r.next_state.racks
        /\ current_player' = r.next_state.current_player
        /\ scores' = r.next_state.scores
        /\ passes_in_a_row' = r.next_state.passes_in_a_row
        /\ applied' = Append(applied, move)
        /\ caller' = [before |-> State, after |-> r.self_after]
        /\ found' = NoCall
        /\ UNCHANGED searchVars

\* the moves offered to the player to move
LegalMoves == get_legal_moves(State, current_player)

\* a Place move of `moves` is applied, with any tiles the draw can give
ApplyPlaceOf(moves) ==
    \E i \in 1 .. Len(moves) :
        /\ ~moves[i].is_pass
        /\ \E picks \in DrawChoices(tile_pool, Len(moves[i].tiles_placed)) :
               Step(moves[i], picks)

\* the Pass move of `moves` is applied
ApplyPassOf(moves) ==
    \E i \in 1 .. Len(moves) :
        /\ moves[i].is_pass
        /\ Step(moves[i], <<>>)

\* a Place move of get_legal_moves is applied
ApplyPlace == ApplyPlaceOf(LegalMoves)

\* the Pass move of get_legal_moves is applied
ApplyPass == ApplyPassOf(LegalMoves)

Next == ApplyPlace \/ ApplyPass

Spec == Init /\ [][Next]_vars

(***************************************************************************)
(* Positions set up by hand: ScrabbleState(...) called directly, as a test *)
(* or a search over a given position does, and apply_move called with a    *)
(* move that get_legal_moves did not produce.                              *)
(***************************************************************************)
\* "CAT" placed horizontally at row 7 starting at column 6
CatBoard == PlaceTiles(EmptyBoard, <<<<7, 6, "C">>, <<7, 7, "A">>, <<7, 8, "T">>>>)

\* racks of the player to move
ScenarioRacks ==
    << <<"C", "A", "T", "S", "X", "X", "X">>,
       <<"S", "X", "X", "X", "X", "X", "X">>,
       <<"X", "S", "X", "T", "A", "X", "C">> >>

NumScenarioRacks == 2

ScenarioOpponentRack == <<"A", "S", "T", "X", "X", "X", "X">>

ScenarioPool == <<"A", "T">>

InitScenario ==
    \E b \in {EmptyBoard, CatBoard} :
        \E k \in 1 .. NumScenarioRacks :
            Start(ScrabbleState(b, ScenarioPool,
                                <<ScenarioRacks[k], ScenarioOpponentRack>>, 1, <<0, 0>>))

\* moves built by hand: a letter the player does not hold, and held letters
\* that form no word
HandMadeMoves ==
    { Move(<<<<7, 9, "Q">>>>, 99, FALSE),
      Move(<<<<0, 0, "X">>, <<0, 1, "X">>>>, 16, FALSE) }

\* a hand-made move is applied only as one of the first moves of a play
MaxHandMadePly == 1

\* apply_move is called with a hand-made move: apply_move itself checks nothing
ApplyHandMade ==
    /\ Len(applied) < MaxHandMadePly
    /\ \E move \in HandMadeMoves :
           \E picks \in DrawChoices(tile_pool, Len(move.tiles_placed)) :
               Step(move, picks)

NextScenario == ApplyPlace \/ ApplyPass \/ ApplyHandMade

SpecScenario == InitScenario /\ [][NextScenario]_vars

(***************************************************************************)
(* Scoring on its own: _calculate_score applied to placements laid on given *)
(* boards.  _calculate_score does not consult the lexicon, so the letters   *)
(* laid need not spell words of WORDS_TXT (which has no seven-letter word). *)
(***************************************************************************)
\* CAT on row 7 and AT down column 8
CatAtBoard == PlaceTiles(CatBoard, <<<<6, 8, "A">>>>)

\* CATS down column 7, its S on the center cell
CatsDownBoard ==
    PlaceTiles(EmptyBoard, <<<<4, 7, "C">>, <<5, 7, "A">>, <<6, 7, "T">>, <<7, 7, "S">>>>)

\* CAT down column 7 with its A on the center cell, and AS along row 7
CatAsBoard ==
    PlaceTiles(EmptyBoard, <<<<6, 7, "C">>, <<7, 7, "A">>, <<8, 7, "T">>, <<7, 8, "S">>>>)

ScoreBoards == <<EmptyBoard, CatBoard, CatAtBoard, CatsDownBoard, CatAsBoard>>

NumScoreBoards == 4

ScoreRack == <<"C", "A", "T", "S", "A", "T", "X">>

\* the letters laid: parts of ScoreRack, from one tile to all seven
ScoreLetters ==
    { <<"S">>, <<"A", "S">>, <<"C", "A", "T", "S">>,
      <<"C", "A", "T", "S", "A", "T", "X">> }

\* the cells a placement may start from
ScoreStarts == (3 .. 8) \X (3 .. 9)

\* tiles_placed of a candidate that starts at (row, col) and runs along the row
\* or the column: only the empty cells of the span receive a tile
Lay(b, letters, row, col, horizontal) ==
    LET line    == Line(b, row, col, horizontal)
        at      == IF horizontal THEN col ELSE row
        empties == SelectSeq(Range(at, BOARD_SIZE), LAMBDA i : line[i] = "")
    IN  IF Len(empties) < Len(letters) THEN <<>>
        ELSE [k \in 1 .. Len(letters) |->
                 IF horizontal THEN <<row, empties[k], letters[k]>>
                 ELSE <<empties[k], col, letters[k]>>]

\* a first move covers the center cell; any later move touches a tile of the board
Connected(b, tiles) ==
    IF b = EmptyBoard
    THEN \E k \in 1 .. Len(tiles) : tiles[k][1] = CENTER /\ tiles[k][2] = CENTER
    ELSE \E k \in 1 .. Len(tiles) : IsAnchor(b, tiles[k][1], tiles[k][2])

ScorePlacements(b) ==
    { tiles \in { Lay(b, letters, rc[1], rc[2], horizontal) :
                     letters \in ScoreLetters, rc \in ScoreStarts, horizontal \in BOOLEAN } :
        tiles # <<>> /\ Connected(b, tiles) }

InitScore ==
    \E k \in 1 .. NumScoreBoards :
        Start(ScrabbleState(ScoreBoards[k], ScenarioPool,
                            <<ScoreRack, ScenarioOpponentRack>>, 1, <<0, 0>>))

\* score = self._calculate_score(tiles_placed); Move(tiles_placed, score), and
\* the move is applied
ApplyScored ==
    /\ applied = <<>>
    /\ \E tiles_placed \in ScorePlacements(board) :
           \E picks \in DrawChoices(tile_pool, Len(tiles_placed)) :
               Step(Move(tiles_placed, calculate_score(board, tiles_placed), FALSE), picks)

NextScore == ApplyScored

SpecScore == InitScore /\ [][NextScore]_vars

(***************************************************************************)
(* The agents: find_best_move is called on the current state, and the move  *)
(* it returned is played.                                                  *)
(***************************************************************************)
\* max_depth of a search
Depths == 1 .. 3

\* where the stream of random numbers stands when a search starts
Seeds == {0, 1}

\* num_playouts: no budget, one playout in all, or a budget shared by the moves
PlayoutBudgets == {0, 1, 40}

\* the heuristic raises at none of its calls (0), or at one of the first ones
Heuristics == [kind : {"utility", "rack_a"}, raise_at : 0 .. 2]

\* racks of the player to move: few letters that form words, so that a search
\* a few plies deep can be followed to its end
AgentRacks ==
    << <<"A", "T", "S", "S", "X", "X", "X">>,
       <<"C", "A", "T", "X", "X", "X", "X">>,
       <<"A", "S", "X", "X", "X", "X", "X">> >>

NumAgentRacks == 2

AgentOpponentRack == <<"A", "S", "T", "X", "X", "X", "X">>

\* a pool that outlasts the first moves, and one that a move of two tiles empties
AgentPools == {<<"S", "A", "S", "A">>, <<"A", "S">>}

InitAgents ==
    \E b \in {EmptyBoard, CatBoard} :
        \E k \in 1 .. NumAgentRacks :
            \E pool \in AgentPools :
                Start(ScrabbleState(b, pool,
                                    <<AgentRacks[k], AgentOpponentRack>>, 1, <<0, 0>>))

\* the agents play the first moves of a game
MaxAgentPly == 1

\* AlphaBetaMinimax(max_depth).find_best_move(state), `moves` being what its
\* call of state.get_legal_moves(current_player) returns
AlphaBetaFindOf(moves) ==
    /\ found = NoCall
    /\ \E max_depth \in Depths : \E s \in Seeds :
           found' = [agent |-> "AlphaBetaMinimax", max_depth |-> max_depth, s |-> s,
                     result |-> AlphaBetaFrom(State, moves, max_depth, s)]
    /\ UNCHANGED <<gameVars, searchVars>>

AlphaBetaFind == AlphaBetaFindOf(LegalMoves)

\* await MonteCarlo(num_playouts, heuristic_fn).find_best_move(state)
MonteCarloFindOf(moves) ==
    /\ found = NoCall
    /\ \E num_playouts \in PlayoutBudgets : \E h \in Heuristics : \E s \in Seeds :
           found' = [agent |-> "MonteCarlo", num_playouts |-> num_playouts, h |-> h, s |-> s,
                     result |-> MonteCarloFrom(State, moves, num_playouts, h, s)]
    /\ UNCHANGED <<gameVars, searchVars>>

MonteCarloFind == MonteCarloFindOf(LegalMoves)

\* state = state.apply_move(move) with the move an agent returned
PlayFound ==
    /\ found # NoCall
    /\ Len(applied) < MaxAgentPly
    /\ ~is_terminal(State)
    /\ found.result.move # NoMove
    /\ \E picks \in DrawChoices(tile_pool, Len(found.result.move.tiles_placed)) :
           Step(found.result.move, picks)

NextAgents == AlphaBetaFind \/ MonteCarloFind \/ PlayFound

SpecAgents == InitAgents /\ [][NextAgents]_vars

(***************************************************************************)
(* generalized_search as a state machine: the call sets up the root and the *)
(* frontier, then every step is one turn of `while frontier:`.              *)
(***************************************************************************)
\* the letters and the dictionary the problems are built from; "cat" is given
\* in lower case, TOT and ST are not candidate words
SearchLetters == { <<"C", "A", "T", "S">>, <<"S", "T", "A">> }

SearchDictionary ==
    { <<"c", "a", "t">>, <<"C", "A", "T", "S">>, <<"A", "T">>, <<"A", "C", "T">>,
      <<"T", "A", "C", "T">>, <<"S", "A", "T">>, <<"T", "O", "T">>, <<"S", "T">> }

MinWordLengths == {2, 3}

CostFns == {"unit", "letter", "length", "negative_s"}

SearchHeuristics == {"zero", "against_a", "raising"}

Strategies == {"a_star", "A_STAR", "uniform_cost", "Uniform_Cost", "GREEDY"}

\* the largest max_expansions a call is given
MaxLimit == 3

Limits == {None} \cup { Some(n) : n \in 0 .. MaxLimit }

InitSearch ==
    Start(ScrabbleState(EmptyBoard, ScenarioPool,
                        <<ScenarioRacks[1], ScenarioOpponentRack>>, 1, <<0, 0>>))

\* heuristic_value under the strategy: [raised, value, calls]
HeuristicValue(strategy, heuristic, state) ==
    IF UsesHeuristic(strategy)
    THEN [raised |-> search_heuristic_fn(heuristic, state).raised,
          value |-> search_heuristic_fn(heuristic, state).value,
          calls |-> 1]
    ELSE [raised |-> FALSE, value |-> 0, calls |-> 0]

\* generalized_search(problem=..., cost_fn=..., heuristic_fn=..., strategy=...,
\* max_expansions=...) up to `while frontier:`
SearchCalled(problem, cost, heuristic, strategy, limit, h0) ==
    /\ request = NoRequest
    /\ request' = [problem |-> problem, cost_fn |-> cost, heuristic_fn |-> heuristic,
                   strategy |-> Lower(strategy), max_expansions |-> limit]
    /\ IF Lower(strategy) \notin {"a_star", "uniform_cost"}
       THEN /\ search_result' = [kind |-> "raise", error |-> "ValueError"]
            /\ UNCHANGED <<frontier, counter, best_costs, explored, expansions,
                           heuristic_calls>>
       ELSE /\ heuristic_calls' = h0.calls
            /\ IF h0.raised
               THEN /\ search_result' = [kind |-> "raise", error |-> "RuntimeError"]
                    /\ UNCHANGED <<frontier, counter, best_costs, explored, expansions>>
               ELSE /\ frontier' = heappush({}, SearchNode(initial_state(problem), None, None,
                                                          0, h0.value), 0)
                    /\ counter' = 1
                    /\ best_costs' = (initial_state(problem) :> 0)
                    /\ explored' = {}
                    /\ expansions' = 0
                    /\ search_result' = NoResult
    /\ UNCHANGED <<gameVars, found>>

Search ==
    \E letters \in SearchLetters : \E min_word_length \in MinWordLengths :
      \E cost \in CostFns : \E heuristic \in SearchHeuristics :
        \E strategy \in Strategies : \E limit \in Limits :
            SearchCalled(SpellingBeeProblem(letters, "A", SearchDictionary, min_word_length),
                         cost, heuristic, strategy, limit,
                         HeuristicValue(Lower(strategy), heuristic, <<>>))

RECURSIVE ExpandFrom(_, _, _, _)

\* one successor of the node being expanded; acc holds best_costs, frontier,
\* counter, heuristic_calls and the exception raised, if any
ExpandOne(node, succ, i, acc, step_cost, h) ==
    IF step_cost < 0
    THEN [acc EXCEPT !.raised = Some("ValueError")]
    ELSE IF /\ succ[i].next_state \in DOMAIN acc.best_costs
            /\ node.path_cost + step_cost >= acc.best_costs[succ[i].next_state]
    THEN ExpandFrom(node, succ, i + 1, acc)
    ELSE IF h.raised
    THEN [acc EXCEPT !.raised = Some("RuntimeError"),
                     !.heuristic_calls = acc.heuristic_calls + h.calls]
    ELSE ExpandFrom(node, succ, i + 1,
            [best_costs |-> (succ[i].next_state :> (node.path_cost + step_cost))
                                @@ acc.best_costs,
             frontier |-> heappush(acc.frontier,
                                   SearchNode(succ[i].next_state, Some(node),
                                              Some(succ[i].action),
                                              node.path_cost + step_cost, h.value),
                                   acc.counter),
             counter |-> acc.counter + 1,
             heuristic_calls |-> acc.heuristic_calls + h.calls,
             raised |-> None])

\* for action, next_state, _metadata in problem.successors(node.state)
ExpandFrom(node, succ, i, acc) ==
    IF i > Len(succ) THEN acc
    ELSE ExpandOne(node, succ, i, acc,
                   cost_fn(request.cost_fn, node.state, succ[i].action, succ[i].next_state),
                   HeuristicValue(request.strategy, request.heuristic_fn, succ[i].next_state))

\* the search ends with `out`
Finish(out, popped) ==
    /\ search_result' = out
    /\ frontier' = popped
    /\ UNCHANGED <<counter, best_costs, explored, expansions, heuristic_calls>>

\* explored.add(node.state); expansions += 1; the successor loop
Expand(node, popped, acc) ==
    /\ explored' = explored \cup {node.state}
    /\ expansions' = expansions + 1
    /\ best_costs' = acc.best_costs
    /\ frontier' = acc.frontier
    /\ counter' = acc.counter
    /\ heuristic_calls' = acc.heuristic_calls
    /\ search_result' = IF acc.raised = None THEN NoResult
                 ELSE [kind |-> "raise", error |-> acc.raised[1]]

\* the body of `while frontier:` after the limit test, entry = heappop(frontier)
Visit(entry, popped) ==
    IF is_goal(request.problem, entry.node.state)
    THEN Finish(build_search_result(Some(entry.node), TRUE, expansions,
                                    Cardinality(explored), Cardinality(popped)), popped)
    ELSE IF entry.node.state \in explored
    THEN /\ frontier' = popped
         /\ UNCHANGED <<counter, best_costs, explored, expansions, heuristic_calls,
                      search_result>>
    ELSE Expand(entry.node, popped,
                ExpandFrom(entry.node, successors(request.problem, entry.node.state), 1,
                           [best_costs |-> best_costs, frontier |-> popped,
                            counter |-> counter, heuristic_calls |-> heuristic_calls,
                            raised |-> None]))

\* one turn of `while frontier:`, or the return after the loop
Iterate ==
    /\ request # NoRequest
    /\ search_result = NoResult
    /\ IF frontier = {} \/ LimitReached(request.max_expansions, expansions)
       THEN Finish(build_search_result(None, FALSE, expansions, Cardinality(explored),
                                       Cardinality(frontier)), frontier)
       ELSE Visit(heap_top(frontier), frontier \ {heap_top(frontier)})
    /\ UNCHANGED <<request, gameVars, found>>

NextSearch == Search \/ Iterate

SpecSearch == InitSearch /\ [][NextSearch]_vars

(***************************************************************************)
(* Properties                                                              *)
(***************************************************************************)
Last(seq) == seq[Len(seq)]

FilledCells(b) == Cardinality({rc \in Idx \X Idx : b[rc[1]][rc[2]] # ""})

TilesInGame(self) ==
    Len(self.racks[1]) + Len(self.racks[2]) + Len(self.tile_pool) + FilledCells(self.board)

\* C1: Tile conservation.  In every state reached from create_new_game by moves
\* of get_legal_moves, the tiles of rack 1, rack 2, the pool and the board
\* together are the tiles the game was created with.  The standard distribution
\* has 100 tiles; the model's part of it has TotalTiles.
C1_TileConservation ==
    /\ TilesInGame(State) = TotalTiles
    /\ Len(StandardPool) = 100

\* two Place moves were applied, the first one with replacement tiles drawn
C1_Witness ==
    /\ Len(applied) >= 2
    /\ ~applied[1].is_pass
    /\ ~applied[2].is_pass
    /\ FilledCells(board) >= 3
    /\ Len(tile_pool) < TotalTiles - 2 * RACK_SIZE

\* C2: apply_move does not change the state it is called on: after the call the
\* board, pool, racks, scores, current_player and passes_in_a_row of that state
\* are what they were before it.
C2_CallerUnchanged == caller.after = caller.before

\* a Place move was applied and its replacement tiles were drawn
C2_Witness ==
    /\ applied # <<>>
    /\ ~Last(applied).is_pass
    /\ Len(tile_pool) < Len(caller.before.tile_pool)
    /\ board # caller.before.board

LastTwoArePasses ==
    /\ Len(applied) >= 2
    /\ applied[Len(applied)].is_pass
    /\ applied[Len(applied) - 1].is_pass

\* C3: passes_in_a_row is 0 after a Place move and one more than before after a
\* Pass move, and a state is terminal exactly when its pool is empty or the two
\* moves applied last were both Pass.
C3_PassCounter ==
    /\ (applied # <<>> /\ ~Last(applied).is_pass) => passes_in_a_row = 0
    /\ (applied # <<>> /\ Last(applied).is_pass)
          => passes_in_a_row = caller.before.passes_in_a_row + 1
    /\ is_terminal(State) <=> (Len(tile_pool) = 0 \/ LastTwoArePasses)

\* a Pass, a Place and two Passes: the counter went up, back to 0, and up to 2
C3_Witness ==
    /\ Len(applied) >= 4
    /\ applied[Len(applied) - 3].is_pass
    /\ ~applied[Len(applied) - 2].is_pass
    /\ LastTwoArePasses
    /\ tile_pool # <<>>
    /\ is_terminal(State)

\* every run of more than one letter through a tile of `tiles` is a word
RunsAreWords(b, tiles) ==
    \A k \in 1 .. Len(tiles) :
        \A horizontal \in BOOLEAN :
            LET word == get_word_at(b, tiles[k][1], tiles[k][2], horizontal)
            IN  Len(word) > 1 => word \in DICTIONARY

\* the board after `move` is applied to `self`
BoardAfter(self, move) ==
    apply_move(self, move,
               CHOOSE picks \in DrawChoices(self.tile_pool, Len(move.tiles_placed)) : TRUE
              ).next_state.board

AllSound(self, moves) ==
    \A i \in 1 .. Len(moves) :
        ~moves[i].is_pass => RunsAreWords(BoardAfter(self, moves[i]), moves[i].tiles_placed)

\* C4: Generator soundness.  For every Place move of get_legal_moves, on the
\* board after the move every horizontal and every vertical run of more than
\* one letter through a newly placed tile is in the dictionary.
C4_GeneratorSound == AllSound(State, LegalMoves)

\* some tile of `tiles` lies on a horizontal and on a vertical run of more than one letter
HasCrossWord(b, tiles) ==
    \E k \in 1 .. Len(tiles) :
        /\ Len(get_word_at(b, tiles[k][1], tiles[k][2], TRUE)) > 1
        /\ Len(get_word_at(b, tiles[k][1], tiles[k][2], FALSE)) > 1

SomeCrossWord(self, moves) ==
    \E i \in 1 .. Len(moves) :
        /\ ~moves[i].is_pass
        /\ HasCrossWord(BoardAfter(self, moves[i]), moves[i].tiles_placed)

\* a move is offered that forms a cross-word next to tiles already on the board
C4_Witness == SomeCrossWord(State, LegalMoves)

\* a move of `moves` places exactly `tiles`
Offers(moves, tiles) == \E i \in 1 .. Len(moves) : moves[i].tiles_placed = tiles

\* C5 (as claimed): with C, A, T on row 7, columns 6 to 8, CATS in the
\* dictionary and an S in the mover's rack, get_legal_moves offers the single
\* tile S at (7,9), whatever the other rack tiles are.
C5_AppendSOffered ==
    (/\ board = CatBoard
     /\ In("S", racks[current_player])
     /\ <<"C", "A", "T", "S">> \in DICTIONARY
     /\ ~is_terminal(State))
    => Offers(LegalMoves, <<<<7, 9, "S">>>>)

SameTiles(rack, tiles) ==
    /\ Len(rack) = Len(tiles)
    /\ \A i \in 1 .. Len(tiles) : Count(rack, tiles[i]) = Count(tiles, tiles[i])

\* the first-move position of the example: empty board, rack {C,A,T,S,X,X,X}
CatsPosition ==
    /\ board = EmptyBoard
    /\ SameTiles(racks[current_player], <<"C", "A", "T", "S", "X", "X", "X">>)
    /\ {<<"C", "A", "T">>, <<"C", "A", "T", "S">>} \subseteq DICTIONARY
    /\ ~is_terminal(State)

\* CATS laid on row 7 from start_col, over the center cell
CatsThroughCenter(move) ==
    \E start_col \in Idx :
        /\ start_col <= CENTER /\ CENTER < start_col + 4
        /\ move.tiles_placed =
              [i \in 1 .. 4 |-> <<CENTER, start_col + i - 1, <<"C", "A", "T", "S">>[i]>>]

OffersCatsScoring(moves, score) ==
    \E i \in 1 .. Len(moves) : CatsThroughCenter(moves[i]) /\ moves[i].score = score

AllCatsScore(moves, score) ==
    \A i \in 1 .. Len(moves) : CatsThroughCenter(moves[i]) => moves[i].score = score

\* C6 (as claimed): on an empty board with rack {C,A,T,S,X,X,X} the first moves
\* include a horizontal CATS over the center cell scoring 1+1+1+1 = 4.
C6_CatsScoresFour == CatsPosition => OffersCatsScoring(LegalMoves, 4)

\* C6 (amended): on an empty board with rack {C,A,T,S,X,X,X} the first moves
\* include a horizontal CATS over the center cell, and every such move scores
\* (3+1+1+1) * 2 = 12: C is worth 3 and the center cell doubles the word.
C6_CatsScoresTwelve ==
    CatsPosition => (OffersCatsScoring(LegalMoves, 12) /\ AllCatsScore(LegalMoves, 12))

\* the example position, with the CATS placements offered
C6_Witness == CatsPosition /\ OffersCatsScoring(LegalMoves, 12)

\* the letters of a Place move are not all in the mover's rack, or a run it
\* forms is not a word
IllegalPlace(self, move) ==
    /\ ~move.is_pass
    /\ \/ ~CanPlace(self.racks[self.current_player],
                    [k \in 1 .. Len(move.tiles_placed) |-> move.tiles_placed[k][3]])
       \/ ~RunsAreWords(PlaceTiles(self.board, move.tiles_placed), move.tiles_placed)

\* C7 (as claimed): apply_move refuses an illegal Place move: no board cell,
\* score, rack or pool is changed by it.
C7_IllegalMoveRefused ==
    (applied # <<>> /\ IllegalPlace(caller.before, Last(applied)))
    => /\ board = caller.before.board
       /\ scores = caller.before.scores
       /\ racks = caller.before.racks
       /\ tile_pool = caller.before.tile_pool

PassLast(self, moves) ==
    IF is_terminal(self) THEN moves = <<>>
    ELSE /\ Len(moves) >= 1
         /\ Last(moves) = PassMove
         /\ \A i \in 1 .. (Len(moves) - 1) :
               ~moves[i].is_pass /\ moves[i].tiles_placed # <<>>

\* C8: get_legal_moves returns the empty list on a terminal state; otherwise a
\* non-empty list whose last element is the Pass move (no tiles, score 0) and
\* whose other elements are not Pass moves.
C8_PassIsLast == PassLast(State, LegalMoves)

\* a position with tiles on the board where Place moves come before the Pass
C8_Witness ==
    /\ ~is_terminal(State)
    /\ board # EmptyBoard
    /\ Len(LegalMoves) > 1

NoTwoAlike(moves) ==
    \A i \in 1 .. Len(moves) :
        \A j \in 1 .. Len(moves) :
            i # j => moves[i].tiles_placed # moves[j].tiles_placed

\* C9 (as claimed): no two moves of get_legal_moves place the same sequence of
\* (row, col, letter) tiles.
C9_NoDuplicateMoves == NoTwoAlike(LegalMoves)

\* the cells of a Place move: on the board, pairwise distinct, in one row or one
\* column, and with every cell between them either one of them or filled
WellFormed(b, tiles) ==
    LET rows == {tiles[k][1] : k \in 1 .. Len(tiles)}
        cols == {tiles[k][2] : k \in 1 .. Len(tiles)}
    IN  /\ tiles # <<>>
        /\ rows \subseteq Idx
        /\ cols \subseteq Idx
        /\ \A j \in 1 .. Len(tiles) : \A k \in 1 .. Len(tiles) :
               j # k => <<tiles[j][1], tiles[j][2]>> # <<tiles[k][1], tiles[k][2]>>
        /\ \/ /\ Cardinality(rows) = 1
              /\ \A c \in SetMin(cols) .. SetMax(cols) :
                     c \in cols \/ b[SetMin(rows)][c] # ""
           \/ /\ Cardinality(cols) = 1
              /\ \A r \in SetMin(rows) .. SetMax(rows) :
                     r \in rows \/ b[r][SetMin(cols)] # ""

AllWellFormed(b, moves) ==
    \A i \in 1 .. Len(moves) : ~moves[i].is_pass => WellFormed(b, moves[i].tiles_placed)

\* C10: every Place move of get_legal_moves has its cells on the 15x15 board,
\* pairwise distinct, in one row or one column, and forming one run together
\* with the filled cells between them.
C10_PlaceWellFormed == AllWellFormed(board, LegalMoves)

\* a move is offered whose tiles are not neighbours: a tile of the board lies
\* between them
SomeGap(moves) ==
    \E i \in 1 .. Len(moves) :
        LET tiles == moves[i].tiles_placed
        IN  /\ Len(tiles) >= 2
            /\ \A j \in 1 .. Len(tiles) : \A k \in 1 .. Len(tiles) :
                   j # k => (tiles[j][1] - tiles[k][1]) * (tiles[j][1] - tiles[k][1])
                            + (tiles[j][2] - tiles[k][2]) * (tiles[j][2] - tiles[k][2]) > 1

C10_Witness == board # EmptyBoard /\ SomeGap(LegalMoves)

LettersOf(seq) == {seq[i] : i \in 1 .. Len(seq)}

\* what a Place move does to the racks, the pool and the scores
PlaceEffect(before, move, after) ==
    LET p       == before.current_player
        k       == Len(move.tiles_placed)
        placed  == [i \in 1 .. k |-> move.tiles_placed[i][3]]
        letters == LettersOf(before.racks[p]) \cup LettersOf(before.tile_pool)
        Drawn(l) == Count(before.tile_pool, l) - Count(after.tile_pool, l)
    IN  /\ Len(before.tile_pool) - Len(after.tile_pool) = Min(k, Len(before.tile_pool))
        /\ LettersOf(after.racks[p]) \cup LettersOf(after.tile_pool) \subseteq letters
        /\ \A l \in letters :
              /\ Drawn(l) >= 0
              /\ Count(after.racks[p], l)
                    = Count(before.racks[p], l) - Count(placed, l) + Drawn(l)
        /\ after.scores[p] = before.scores[p] + move.score
        /\ after.racks[3 - p] = before.racks[3 - p]
        /\ after.scores[3 - p] = before.scores[3 - p]

\* C11: applying a generated Place move of k tiles takes one tile per placed
\* letter out of the mover's rack (also when the rack holds the letter several
\* times), moves min(k, size of pool) tiles from the pool to that rack, adds
\* move.score to the mover's score, and leaves the opponent's rack and score alone.
C11_PlaceEffect ==
    (applied # <<>> /\ ~Last(applied).is_pass)
    => PlaceEffect(caller.before, Last(applied), State)

\* a Place move of more tiles than the pool held, one of its letters held more
\* than once by the mover
C11_Witness ==
    /\ applied # <<>>
    /\ ~Last(applied).is_pass
    /\ Len(Last(applied).tiles_placed) > Len(caller.before.tile_pool)
    /\ caller.before.tile_pool # <<>>
    /\ \E i \in 1 .. Len(Last(applied).tiles_placed) :
           Count(caller.before.racks[caller.before.current_player],
                 Last(applied).tiles_placed[i][3]) >= 2

\* C12: applying a Pass move leaves the board, the pool, both racks and both
\* scores as they were; the other player is to move and passes_in_a_row is one
\* more than before.
C12_PassFrame ==
    (applied # <<>> /\ Last(applied).is_pass)
    => /\ board = caller.before.board
       /\ tile_pool = caller.before.tile_pool
       /\ racks = caller.before.racks
       /\ scores = caller.before.scores
       /\ current_player = 3 - caller.before.current_player
       /\ passes_in_a_row = caller.before.passes_in_a_row + 1

\* a Pass applied in the middle of a game: tiles on the board, points scored
C12_Witness ==
    /\ applied # <<>>
    /\ Last(applied).is_pass
    /\ board # EmptyBoard
    /\ scores[current_player] > 0
    /\ tile_pool # <<>>

(***************************************************************************)
(* Scoring, stated over cells rather than by walking the runs              *)
(***************************************************************************)
RECURSIVE SumOver(_, _)
SumOver(S, f) ==
    IF S = {} THEN 0
    ELSE LET x == CHOOSE y \in S : TRUE IN f[x] + SumOver(S \ {x}, f)

RECURSIVE ProdOver(_, _)
ProdOver(S, f) ==
    IF S = {} THEN 1
    ELSE LET x == CHOOSE y \in S : TRUE IN f[x] * ProdOver(S \ {x}, f)

LetterMultiplier(premium) == IF premium = 2 THEN 2 ELSE IF premium = 3 THEN 3 ELSE 1

WordMultiplier(premium) == IF premium = 4 THEN 2 ELSE IF premium = 5 THEN 3 ELSE 1

\* the cells of the row (horizontal) or column through (row, col) joined to the
\* cells `from` by filled cells only
JoinedCells(b, row, col, horizontal, from) ==
    LET Cell(i) == IF horizontal THEN <<row, i>> ELSE <<i, col>>
        Filled(i) == b[Cell(i)[1]][Cell(i)[2]] # ""
    IN  { Cell(i) : i \in { i \in Idx : \E j \in from :
                                \A m \in (IF i < j THEN i ELSE j) .. (IF i < j THEN j ELSE i) :
                                    Filled(m) } }

\* a run scored with the premiums of the cells `new` only
CellsScore(b, cells, new) ==
    (SumOver(cells, [rc \in cells |-> LetterValue(b[rc[1]][rc[2]])])
     + SumOver(cells \cap new,
               [rc \in cells \cap new |->
                   LetterValue(b[rc[1]][rc[2]])
                      * (LetterMultiplier(Premium(rc[1], rc[2])) - 1)]))
    * ProdOver(cells \cap new,
               [rc \in cells \cap new |-> WordMultiplier(Premium(rc[1], rc[2]))])

CellsOf(tiles) == {<<tiles[k][1], tiles[k][2]>> : k \in 1 .. Len(tiles)}

\* the main word: the run along the row of the tiles when they share a row, else
\* along the column of the first tile
MainCells(b, tiles) ==
    LET horizontal == Cardinality({tiles[k][1] : k \in 1 .. Len(tiles)}) = 1
    IN  JoinedCells(PlaceTiles(b, tiles), tiles[1][1], tiles[1][2], horizontal,
                    IF horizontal THEN {tiles[k][2] : k \in 1 .. Len(tiles)}
                    ELSE {tiles[k][1] : k \in 1 .. Len(tiles)})

\* the run through one tile across the main direction
CrossCells(b, tiles, tile) ==
    LET horizontal == Cardinality({tiles[k][1] : k \in 1 .. Len(tiles)}) = 1
    IN  JoinedCells(PlaceTiles(b, tiles), tile[1], tile[2], ~horizontal,
                    IF horizontal THEN {tile[1]} ELSE {tile[2]})

CrossWordsTotal(b, tiles) ==
    SumOver(1 .. Len(tiles),
            [k \in 1 .. Len(tiles) |->
                IF Cardinality(CrossCells(b, tiles, tiles[k])) > 1
                THEN CellsScore(PlaceTiles(b, tiles), CrossCells(b, tiles, tiles[k]),
                                {<<tiles[k][1], tiles[k][2]>>})
                ELSE 0])

Bonus(tiles) == IF Len(tiles) = 7 THEN 50 ELSE 0

ScoreIsSum(b, tiles, score) ==
    /\ score = MainWordScore(b, tiles) + CrossWordsTotal(b, tiles) + Bonus(tiles)
    /\ score >= 0

\* C13: the score of a placement is its main-word score, plus for every newly
\* placed tile whose perpendicular run is longer than one letter that run's
\* letter sum times its own word multiplier (with the premium of the new tile
\* only), plus 50 exactly when 7 tiles were placed; it is never negative.
C13_ScoreIsSum ==
    applied # <<>>
    => ScoreIsSum(caller.before.board, Last(applied).tiles_placed, Last(applied).score)

\* seven tiles were placed and one of them lies on a cross-word
C13_Witness ==
    /\ applied # <<>>
    /\ Len(Last(applied).tiles_placed) = 7
    /\ CrossWordsTotal(caller.before.board, Last(applied).tiles_placed) > 0
    /\ Last(applied).score > 50

ModelCrossWords(b, tiles) ==
    SumSeq([k \in 1 .. Len(tiles) |-> CrossWordScore(b, tiles, tiles[k])])

MainWordByCells(b, tiles, score) ==
    score - ModelCrossWords(b, tiles) - Bonus(tiles)
        = CellsScore(PlaceTiles(b, tiles), MainCells(b, tiles), CellsOf(tiles))

\* C20: in the main word of a placement a letter premium multiplies the letter
\* value and a word premium multiplies the word multiplier only on the cells
\* that receive a tile in this move; a tile already on the board counts its
\* plain letter value; the main-word score is the letter sum times the product
\* of the word premiums.
C20_MainWordPremiums ==
    applied # <<>>
    => MainWordByCells(caller.before.board, Last(applied).tiles_placed, Last(applied).score)

\* a main word with a tile that was on the board on a premium cell, and a new
\* tile on a letter premium cell
OldAndNewOnPremiums(b, tiles) ==
    /\ \E rc \in MainCells(b, tiles) \ CellsOf(tiles) : Premium(rc[1], rc[2]) # 0
    /\ \E rc \in CellsOf(tiles) : Premium(rc[1], rc[2]) \in {2, 3}

C20_Witness ==
    /\ applied # <<>>
    /\ OldAndNewOnPremiums(caller.before.board, Last(applied).tiles_placed)

\* a first move with new tiles on a letter premium and on the center word premium
C20_WitnessWordPremium ==
    /\ applied # <<>>
    /\ caller.before.board = EmptyBoard
    /\ \E rc \in CellsOf(Last(applied).tiles_placed) : Premium(rc[1], rc[2]) = 4
    /\ \E rc \in CellsOf(Last(applied).tiles_placed) : Premium(rc[1], rc[2]) = 2

(***************************************************************************)
(* Exhaustive minimax, without pruning                                     *)
(***************************************************************************)
RECURSIVE Exhaustive(_, _, _, _)

ExhaustiveOver(state, moves, depth, root_player, s) ==
    LET values == { Exhaustive(ApplyResolved(state, moves[i], s), depth - 1, root_player, s) :
                      i \in 1 .. Len(moves) }
    IN  IF state.current_player = root_player THEN SetMax(values) ELSE SetMin(values)

\* the depth-limited minimax value of a state for root_player
Exhaustive(state, depth, root_player, s) ==
    IF depth = 0 \/ is_terminal(state)
    THEN state.scores[root_player] - state.scores[3 - root_player]
    ELSE ExhaustiveOver(state, get_legal_moves(state, state.current_player), depth,
                        root_player, s)

RECURSIVE TreeSize(_, _, _)

TreeSizeOver(state, moves, depth, s) ==
    SumSeq([i \in 1 .. Len(moves) |-> TreeSize(ApplyResolved(state, moves[i], s), depth - 1, s)])

\* the number of states below `state` down to `depth` plies, itself included
TreeSize(state, depth, s) ==
    IF depth = 0 \/ is_terminal(state) THEN 1
    ELSE 1 + TreeSizeOver(state, get_legal_moves(state, state.current_player), depth, s)

\* what find_best_move returned against the exhaustive value of the root
AgreesWithExhaustive(state, depth, s, result, exhaustive) ==
    /\ result.best_value = exhaustive
    /\ Exhaustive(ApplyResolved(state, result.move, s), depth - 1, state.current_player, s)
          = exhaustive

\* C14: for a depth limit D >= 1 and draws resolved the same way in both, the
\* value find_best_move gives the move it returns is the value of exhaustive
\* depth-D minimax without pruning: best_value is that value and the returned
\* move attains it.
C14_AlphaBetaIsMinimax ==
    (found.agent = "AlphaBetaMinimax" /\ ~is_terminal(State))
    => AgreesWithExhaustive(State, found.max_depth, found.s, found.result,
                            Exhaustive(State, found.max_depth, current_player, found.s))

\* a search of depth 2 or more in which a cutoff left part of the tree unexplored
C14_Witness ==
    /\ found.agent = "AlphaBetaMinimax"
    /\ ~is_terminal(State)
    /\ found.max_depth >= 2
    /\ found.result.nodes_explored < TreeSize(State, found.max_depth, found.s) - 1

\* C15: on a terminal state, which has no legal moves, both find_best_move
\* return a Pass move with score 0 and no tiles, and neither applies a move nor
\* calls the heuristic.
C15_TerminalGivesPass ==
    (found # NoCall /\ is_terminal(State))
    => /\ found.result.move = PassMove
       /\ found.agent = "AlphaBetaMinimax" => found.result.nodes_explored = 0
       /\ found.agent = "MonteCarlo"
             => found.result.outcome = "return" /\ found.result.heuristic_calls = 0

\* the Monte Carlo agent was called on a state made terminal by a move, with a
\* heuristic that would raise at its first call
C15_Witness ==
    /\ found.agent = "MonteCarlo"
    /\ is_terminal(State)
    /\ applied # <<>>
    /\ found.h.raise_at = 1
    /\ found.result.move = PassMove

\* the first place of a greatest average
FirstBest(averages) ==
    CHOOSE k \in 1 .. Len(averages) :
        /\ \A j \in 1 .. Len(averages) : ~AvgLess(averages[k], averages[j])
        /\ \A j \in 1 .. (k - 1) : AvgLess(averages[j], averages[k])

ReturnsFirstBest(moves, result) == result.move = moves[FirstBest(result.averages)]

\* C16 (as claimed): MonteCarlo.find_best_move returns the move of
\* get_legal_moves whose average heuristic value is greatest, the first such
\* move in generation order when several share that average.
C16_ReturnsFirstBest ==
    (found.agent = "MonteCarlo" /\ ~is_terminal(State) /\ found.result.outcome = "return")
    => ReturnsFirstBest(LegalMoves, found.result)

RaisesWithin(moves, num_playouts, h) ==
    /\ moves # <<>>
    /\ h.raise_at >= 1
    /\ h.raise_at <= Len(moves) * PlayoutsPerMove(num_playouts, moves)

\* C17: when the heuristic raises during a playout, find_best_move ends with
\* that failure: no move is returned, the call that raised is the last call of
\* the heuristic, and no value stands in for the failed evaluation.
C17_HeuristicFailurePropagates ==
    (found.agent = "MonteCarlo" /\ RaisesWithin(LegalMoves, found.num_playouts, found.h))
    => /\ found.result.outcome = "raise"
       /\ found.result.move = NoMove
       /\ found.result.heuristic_calls = found.h.raise_at

\* the heuristic raised at its second call, after one evaluation that succeeded
C17_Witness ==
    /\ found.agent = "MonteCarlo"
    /\ found.h.raise_at = 2
    /\ found.result.outcome = "raise"
    /\ found.result.heuristic_calls = 2

(***************************************************************************)
(* generalized_search                                                      *)
(***************************************************************************)
\* a search with an expansion limit that has returned without a goal
StoppedWithoutGoal ==
    /\ request # NoRequest
    /\ request.max_expansions # None
    /\ search_result.kind = "return"
    /\ ~search_result.success

\* C18: with max_expansions = N the search never expands more than N states,
\* expansions of the returned SearchResult included, and when it returns
\* without a goal the result has success False, cost infinity, goal_state None
\* and no actions; a search the limit stopped with nodes left on the frontier
\* made exactly N expansions.
C18_ExpansionLimit ==
    (request # NoRequest /\ request.max_expansions # None)
    => /\ expansions <= request.max_expansions[1]
       /\ search_result.kind = "return"
             => search_result.expansions <= request.max_expansions[1]
       /\ StoppedWithoutGoal
             => /\ search_result.cost = Inf
                /\ search_result.goal_state = None
                /\ search_result.actions = <<>>
                /\ search_result.frontier_size > 0
                      => search_result.expansions = request.max_expansions[1]

\* a limit of two or more stopped a search that still had nodes to visit
C18_Witness ==
    /\ StoppedWithoutGoal
    /\ request.max_expansions[1] >= 2
    /\ search_result.expansions = request.max_expansions[1]
    /\ search_result.frontier_size > 0

RECURSIVE ReachableFrom(_, _, _)

\* the states that successors leads to from the states of `layer`
ReachableFrom(problem, layer, seen) ==
    IF layer = {} THEN seen
    ELSE ReachableFrom(problem,
             UNION { { successors(problem, state)[i].next_state :
                         i \in 1 .. Len(successors(problem, state)) } : state \in layer }
               \ (seen \cup layer),
             seen \cup layer)

Reachable(problem) == ReachableFrom(problem, {initial_state(problem)}, {})

\* the goal words that can be typed from the empty string
GoalWords(problem) == { state \in Reachable(problem) : is_goal(problem, state) }

\* the cost of typing `word` letter by letter
PathCost(cost, word) ==
    SumSeq([i \in 1 .. Len(word) |->
               cost_fn(cost, SubSeq(word, 1, i - 1), word[i], SubSeq(word, 1, i))])

\* every step between reachable states has a non-negative cost
NonNegativeCosts(problem, cost) ==
    \A state \in Reachable(problem) \ {<<>>} :
        cost_fn(cost, SubSeq(state, 1, Len(state) - 1), state[Len(state)], state) >= 0

MinGoalCost(problem, cost) == SetMin({ PathCost(cost, word) : word \in GoalWords(problem) })

\* a uniform-cost search without limit, on non-negative costs, that has ended
UniformCostEnded ==
    /\ request # NoRequest
    /\ request.strategy = "uniform_cost"
    /\ request.max_expansions = None
    /\ NonNegativeCosts(request.problem, request.cost_fn)
    /\ search_result # NoResult

\* C19: under "uniform_cost" the heuristic is never called, and with
\* non-negative step costs and no limit the search ends with a goal when one
\* can be reached, the goal_state is a valid word, the actions type it, and
\* the cost is the least path cost over the goal words reachable from "".
C19_UniformCost ==
    /\ (request # NoRequest /\ request.strategy = "uniform_cost") => heuristic_calls = 0
    /\ UniformCostEnded
          => /\ search_result.kind = "return"
             /\ search_result.success = (GoalWords(request.problem) # {})
             /\ search_result.success
                   => /\ search_result.goal_state[1] \in request.problem.valid_words
                      /\ search_result.actions = search_result.goal_state[1]
                      /\ search_result.cost = PathCost(request.cost_fn,
                                                       search_result.goal_state[1])
                      /\ search_result.cost = MinGoalCost(request.problem, request.cost_fn)

\* a uniform-cost search given a heuristic that a_star would follow elsewhere:
\* the word found starts with A, the cheapest letter, and is not the first
\* goal in the order of the letters
C19_Witness ==
    /\ UniformCostEnded
    /\ request.heuristic_fn = "against_a"
    /\ request.cost_fn = "letter"
    /\ search_result.success
    /\ search_result.goal_state[1][1] = "A"
    /\ request.problem.letters[1] # "A"
    /\ search_result.expansions >= 3

(***************************************************************************)
(* Single-tile placements                                                  *)
(***************************************************************************)
\* the run through `tile` along one axis on the board with the tile laid
AxisCells(b, tile, horizontal) ==
    JoinedCells(PlaceTiles(b, <<tile>>), tile[1], tile[2], horizontal,
                IF horizontal THEN {tile[2]} ELSE {tile[1]})

\* what one axis gives when only runs longer than one letter are scored
AxisScore(b, tile, horizontal) ==
    IF Cardinality(AxisCells(b, tile, horizontal)) > 1
    THEN CellsScore(PlaceTiles(b, <<tile>>), AxisCells(b, tile, horizontal),
                    {<<tile[1], tile[2]>>})
    ELSE 0

SingleTileScores(b, moves) ==
    \A i \in 1 .. Len(moves) :
        (~moves[i].is_pass /\ Len(moves[i].tiles_placed) = 1)
        => moves[i].score = AxisScore(b, moves[i].tiles_placed[1], TRUE)
                            + AxisScore(b, moves[i].tiles_placed[1], FALSE)

\* C21 (as claimed): the score of a generated single-tile placement is the sum
\* of the runs longer than one letter through the tile; an axis on which the
\* tile has no neighbour adds nothing.
C21_AbsentAxisScoresZero == SingleTileScores(board, LegalMoves)

(***************************************************************************)
(* MonteCarlo: the playouts of one move                                    *)
(***************************************************************************)
\* every playout of every move evaluates the successor of the first playout
OneSuccessorPerMove(state, moves, playouts_per_move, s) ==
    \A i \in 1 .. Len(moves) : \A j \in 1 .. playouts_per_move :
        PlayoutSuccessor(state, moves[i], s, (i - 1) * playouts_per_move + 1, j)
          = PlayoutSuccessor(state, moves[i], s, (i - 1) * playouts_per_move + 1, 1)

\* the call ran every playout of every move
RanAllPlayouts(moves) ==
    /\ found.agent = "MonteCarlo"
    /\ moves # <<>>
    /\ found.result.outcome = "return"

\* C22 (as claimed): for each candidate move MonteCarlo.find_best_move obtains
\* one successor state and calls the heuristic on that same successor (same
\* board, racks and pool) in every playout of the move.
C22_OneSuccessorPerMove ==
    RanAllPlayouts(LegalMoves)
    => OneSuccessorPerMove(State, LegalMoves,
                           PlayoutsPerMove(found.num_playouts, LegalMoves), found.s)

(***************************************************************************)
(* AlphaBetaMinimax: the move chosen at the root                           *)
(***************************************************************************)
RECURSIVE RootValuesFrom(_, _, _, _, _, _)

\* the values of the root moves from move number i on, after those of `values`
RootValuesFrom(state, moves, depth, s, i, values) ==
    IF i > Len(moves) THEN values
    ELSE RootValuesFrom(state, moves, depth, s, i + 1,
             Append(values, Exhaustive(ApplyResolved(state, moves[i], s), depth - 1,
                                       state.current_player, s)))

\* the exhaustive minimax value of every root move, in generation order
RootValues(state, moves, depth, s) == RootValuesFrom(state, moves, depth, s, 1, <<>>)

\* place k holds the greatest value and no earlier place does
IsFirstMax(values, k) ==
    /\ \A j \in 1 .. Len(values) : values[j] <= values[k]
    /\ \A j \in 1 .. (k - 1) : values[j] < values[k]

\* the move returned is the move at the first place of the greatest value
ReturnsFirstMax(moves, result, values) ==
    \E k \in 1 .. Len(moves) : moves[k] = result.move /\ IsFirstMax(values, k)

\* an AlphaBetaMinimax call on a state that is not terminal
AlphaBetaCalled == found.agent = "AlphaBetaMinimax" /\ ~is_terminal(State)

\* C23: find_best_move returns the first move, in generation order, whose
\* minimax value is the greatest of the root moves; a later move of equal
\* value does not replace it, pruned subtrees included.
C23_FirstBestRootMove ==
    AlphaBetaCalled
    => ReturnsFirstMax(LegalMoves, found.result,
                       RootValues(State, LegalMoves, found.max_depth, found.s))

SeveralBest(values) ==
    Cardinality({ k \in 1 .. Len(values) : \A j \in 1 .. Len(values) : values[j] <= values[k] })
      >= 2

\* several root moves share the greatest value, in a search where a cutoff
\* left part of the tree unexplored
C23_Witness ==
    /\ AlphaBetaCalled
    /\ found.max_depth >= 2
    /\ found.result.nodes_explored < TreeSize(State, found.max_depth, found.s) - 1
    /\ SeveralBest(RootValues(State, LegalMoves, found.max_depth, found.s))

IsOneOf(moves, move) == \E i \in 1 .. Len(moves) : moves[i] = move

\* C27: on a state that is not terminal, for every max_depth >= 1,
\* find_best_move returns one of the moves of get_legal_moves, never None, and
\* the value it found is finite.
C27_ReturnsLegalMove ==
    AlphaBetaCalled
    => /\ found.result.move # NoMove
       /\ IsOneOf(LegalMoves, found.result.move)
       /\ found.result.best_value > -Inf
       /\ found.result.best_value < Inf

\* a search three plies deep returned a Place move
C27_Witness ==
    /\ AlphaBetaCalled
    /\ found.max_depth = 3
    /\ ~found.result.move.is_pass
    /\ found.result.move.tiles_placed # <<>>

(***************************************************************************)
(* MonteCarlo: the playouts each move gets                                 *)
(***************************************************************************)
\* every move got `share` playouts, one at least
EvenShare(moves, result, share) ==
    /\ Len(result.playouts) = Len(moves)
    /\ \A k \in 1 .. Len(moves) :
           result.playouts[k] = (IF share >= 1 THEN share ELSE 1)
    /\ result.heuristic_calls = Len(moves) * (IF share >= 1 THEN share ELSE 1)

\* C24: for a budget num_playouts >= 0 and a move list that is not empty,
\* every candidate move gets the same number of playouts, the floor of
\* num_playouts / number of moves, raised to 1 when that floor is 0.
C24_EvenPlayouts ==
    (RanAllPlayouts(LegalMoves) /\ found.num_playouts >= 0)
    => EvenShare(LegalMoves, found.result, found.num_playouts \div Len(LegalMoves))

\* a budget that gives every move several playouts and leaves a remainder
C24_Witness ==
    /\ RanAllPlayouts(LegalMoves)
    /\ found.num_playouts \div Len(LegalMoves) >= 2
    /\ found.num_playouts % Len(LegalMoves) # 0
    /\ found.result.playouts[Len(LegalMoves)] = found.num_playouts \div Len(LegalMoves)

(***************************************************************************)
(* Termination of a play                                                   *)
(***************************************************************************)
\* a bound on the moves still to come: every tile of the pool allows a Place
\* move and a Pass before it, and the passes left before two in a row
MovesLeft == 2 * Len(tile_pool) + (2 - passes_in_a_row)

\* a move leaves fewer moves to come, and there are never less than none
FewerMovesLeft == MovesLeft >= 0 /\ MovesLeft' >= 0 /\ MovesLeft' < MovesLeft

\* a play stops only at a terminal state: until then get_legal_moves offers a move
CanGoOn(moves) == is_terminal(State) \/ moves # <<>>

\* C25: every play from create_new_game() ends, and ends at a terminal state:
\* each move taken from get_legal_moves lowers the bound on the moves to come
\* (a Place move takes at least one tile from the pool, a Pass brings the
\* second Pass in a row nearer), the bound is never negative, and a state that
\* is not terminal always has a move.
C25_PlayTerminates == [][FewerMovesLeft]_vars /\ []CanGoOn(LegalMoves)

\* a play that had a Pass in it ended when a Place move emptied the pool
C25_Witness ==
    /\ is_terminal(State)
    /\ tile_pool = <<>>
    /\ passes_in_a_row = 0
    /\ \E k \in 1 .. Len(applied) : applied[k].is_pass

(***************************************************************************)
(* Racks and board cells along a play                                      *)
(***************************************************************************)
\* C26: in every state of a play from create_new_game() no rack holds more
\* than 7 tiles, and while the state is not terminal both racks hold exactly 7.
C26_RackSizes ==
    \A p \in {1, 2} :
        /\ Len(racks[p]) <= RACK_SIZE
        /\ ~is_terminal(State) => Len(racks[p]) = RACK_SIZE

\* a Place move found fewer tiles in the pool than it had placed: the game is
\* over and the mover's rack is short
C26_Witness ==
    /\ applied # <<>>
    /\ ~Last(applied).is_pass
    /\ is_terminal(State)
    /\ Len(racks[3 - current_player]) < RACK_SIZE
    /\ Len(caller.before.racks[3 - current_player]) = RACK_SIZE

\* every cell that held a letter before the move holds the same letter after it
KeepsLetters(before, after) ==
    \A r \in Idx : \A c \in Idx : before[r][c] # "" => after[r][c] = before[r][c]

\* every tile of every Place move of `moves` lies on an empty cell of b
OnEmptyCells(b, moves) ==
    \A i \in 1 .. Len(moves) : \A k \in 1 .. Len(moves[i].tiles_placed) :
        b[moves[i].tiles_placed[k][1]][moves[i].tiles_placed[k][2]] = ""

\* C28: generated Place moves put tiles on empty cells only, and along a play
\* from a new game every move leaves each letter on the board where and as it
\* was: no tile is overwritten or removed.
C28_CellsKeepLetters ==
    /\ OnEmptyCells(board, LegalMoves)
    /\ applied # <<>> => KeepsLetters(caller.before.board, board)

\* a Place move was made on a board that held letters already, next to them
C28_Witness ==
    /\ Len(applied) >= 2
    /\ ~Last(applied).is_pass
    /\ \E r \in Idx : \E c \in Idx : caller.before.board[r][c] # ""
    /\ board # caller.before.board

====
